---- MODULE Spec2Model ----
(***************************************************************************)
(* Helix::log::hxLogger (src/HelixDebug.h): the process-wide logger, its   *)
(* configuration calls and log(), run by several threads.                  *)
(*                                                                         *)
(* Every access to a std::atomic member is one step of the calling thread. *)
(* Members guarded by mMutex (m_suppressedUnits, mFlogStream, mOlogStream) *)
(* are accessed in the step of the neighbouring atomic access or of the    *)
(* lock acquisition, which no other thread can tell apart.                 *)
(***************************************************************************)
EXTENDS Naturals, Integers, Sequences, FiniteSets, TLC

\* ---------------------------------------------------------------- bounds
NumThreads == 3          \* concurrent caller threads 1..NumThreads
MaxOps     == 3          \* calls started per concurrent thread set
MaxSeqOps  == 4          \* calls started by the single sequential caller
MaxFmtOps  == 3          \* calls started by the caller of the convenience functions
MaxRaceOps == 3          \* calls started by the two callers that race on the width
MaxLineOps == 2          \* calls started by the callers of multi-line messages
MaxOnceOps == 4          \* log_once calls started
MaxViewOps == 3          \* Open actions and stopParsing calls of the viewer
BATCH_SIZE == 2          \* lines per batch of the parser worker (5000 in the program)

\* ------------------------------------------------------- program constants
kMessageWidth    == 80
kMaxMessageWidth == 512

TRACE  == 1
DEBUG  == 2
INFO   == 4
WARN   == 8
ERROR  == 16
HEADER == 32
FOOTER == 64
NOTICE == 128

\* the default argument of turnDebugOn and the constructor's mSetLevel
AllLevels == TRACE + DEBUG + INFO + WARN + ERROR + HEADER + FOOTER + NOTICE

\* ------------------------------------------------------------ level mask
RECURSIVE BitAnd(_, _)
BitAnd(a, b) ==
    IF a = 0 \/ b = 0 THEN 0
    ELSE (IF a % 2 = 1 /\ b % 2 = 1 THEN 1 ELSE 0) + 2 * BitAnd(a \div 2, b \div 2)

has_level(flags, level) == BitAnd(flags, level) # 0

\* ------------------------------------------------------------------ callers
Threads == 1..NumThreads           \* the callers of the concurrent runs
Main    == NumThreads + 1          \* the single caller of the sequential runs
Fmt     == NumThreads + 2          \* the caller of the convenience functions
Racers  == {NumThreads + 3, NumThreads + 4}   \* two callers that change and use the width
Liner   == NumThreads + 5          \* a caller of multi-line messages, and a second one
Liners  == {Liner, Liner + 1}
Callers == Threads \cup {Main, Fmt} \cup Racers \cup Liners
NoThread == {}                     \* mMutex is free

\* ------------------------------------------------------------------- inputs
\* A string is a sequence of one-character strings; "ESC" is the byte 0x1b.
MaskArgs(t)  == IF t = Main THEN {AllLevels, INFO, WARN + ERROR, 0}
                ELSE IF t = Fmt THEN {AllLevels, AllLevels - FOOTER}
                ELSE IF t \in Racers THEN {AllLevels}
                ELSE {AllLevels, INFO}
LevelArgs(t) == IF t = Main THEN {INFO, WARN, HEADER} ELSE {INFO, HEADER}
LineInfos    == {<<"a", ".", "c">>, <<"a", "b", ".", "c">>}
UnitArgs     == {<<"a">>, <<"a", "b">>}
Messages(t)  == IF t = Main THEN {<<"x">>, <<"v", "w", "x", "y", "z">>,
                                  <<"ESC", "[", "m", "\n", "y">>}
                ELSE IF t \in Racers THEN {<<"x", "y", "z">>}
                ELSE IF t \in Liners THEN {<<>>, <<"x", "y">>, <<"x", "\n", "\n", "y", "\n">>}
                ELSE {<<"x">>}
WidthArgs(t) == IF t = Main THEN {0, 1, 2, 512, 513} ELSE IF t = Fmt THEN {8}
                ELSE IF t \in Racers THEN {0, 2}
                ELSE IF t \in Liners THEN {2}
                ELSE {1}
Streams      == {"cout", "oss"}
Paths        == {"p1", "p2", "bad"}
Writable     == {"p1", "p2"}       \* paths the file system lets us open

\* -------------------------------------------------------------------- state
VARIABLES
    mIsDateTime, mIsColor, mLogFile, mIsLogging, mLogConsole,   \* std::atomic<bool>
    mMessageWidth,                                              \* std::atomic<std::size_t>
    mSetLevel,                                                  \* std::atomic<Level>
    m_suppressedUnits,                                          \* unordered_set<string>
    mMutex,                                                     \* {owner} of mMutex, or NoThread
    mSharedMutex,                                               \* holders of a shared lock
    mFlogStream,                                                \* [path, fail] of the fstream
    mOlogStream,                                                \* the console stream pointed to
    consoleOut,                                                 \* what each console stream received
    fileOut,                                                    \* what each file received
    pc, loc, ret,                                               \* per caller: position, locals, last result
    ops,                                                        \* calls started so far
    joined,                                                     \* concurrent callers that have made a call
    aux,                                                        \* history of each caller's current log() call
    existed,                                                    \* configurations seen between mutator calls
    supCalls,                                                   \* units suppressed by the calls made so far
    last,                                                       \* sequential runs: the last call and the state before it
    arg, result,                                                \* text-utility runs: the input and what was computed
    frame,                                                      \* per caller: the convenience function it is in
    is_debug_build,                                             \* the build: whether a debug macro was defined
    logged,                                                     \* log_once: "static bool logged" of each instantiation
    oncePc,                                                     \* log_once: where each of its callers is
    invoked,                                                    \* log_once: how often each logFunc was invoked
    parsing_active, stop_requested,                             \* LogParser: std::atomic<bool>
    parsing_thread,                                             \* LogParser: the worker the std::thread stands for, 0 when not joinable
    worker,                                                     \* the worker threads: position and locals of each
    log_entries,                                                \* main: the shared vector of entries
    log_entries_mutex,                                          \* main: {owner} of the mutex of the vector
    status_message,                                             \* main: what the progress callback stored last
    ui,                                                         \* main: position of the thread that runs the screen
    quiet,                                                      \* stopParsing has returned and no worker was started since
    terminated                                                  \* std::terminate was called

config == <<mIsDateTime, mIsColor, mLogFile, mIsLogging, mLogConsole, mMessageWidth, mSetLevel>>
guarded == <<m_suppressedUnits, mFlogStream, mOlogStream>>
sinks == <<consoleOut, fileOut>>
program == <<config, guarded, sinks, mMutex, mSharedMutex, pc, loc, ret, ops>>
history == <<aux, existed, supCalls, last, joined>>
once == <<logged, oncePc, invoked>>
viewer == <<parsing_active, stop_requested, parsing_thread, worker, log_entries,
            log_entries_mutex, status_message, ui, quiet, terminated>>
layer == <<frame, is_debug_build, once, viewer>>
vars == <<program, history, arg, result, layer>>

\* the fields one log() call acts on, as one configuration
Configuration == <<mIsLogging, mSetLevel, mLogConsole, mLogFile, mIsColor, mIsDateTime>>

\* everything a configuration call can change
Settings == [mIsLogging |-> mIsLogging, mSetLevel |-> mSetLevel, mLogConsole |-> mLogConsole,
             mLogFile |-> mLogFile, mIsColor |-> mIsColor, mIsDateTime |-> mIsDateTime,
             mMessageWidth |-> mMessageWidth, mOlogStream |-> mOlogStream,
             mFlogStream |-> mFlogStream, m_suppressedUnits |-> m_suppressedUnits]

NoAux == [okSeen |-> FALSE, sup |-> FALSE, wrote |-> 0]
NoCall == [op |-> "none"]

NoLocals == [op |-> "none"]
NoFrame == [fn |-> "none"]

\* how a call ended: with a value, with an exception, or with nothing to return
NoResult     == [thrown |-> FALSE, val |-> FALSE, what |-> "none"]
Returned(v)  == [thrown |-> FALSE, val |-> v, what |-> "value"]
Threw(what)  == [thrown |-> TRUE, val |-> FALSE, what |-> what]

\* log_once is instantiated once for each closure type, that is for each
\* lambda expression handed to it; its callers are threads of the program
OnceSites   == {"A", "B"}
OnceCallers == 1..3
OutOfOnce   == [at |-> "out", site |-> "none"]

\* "static bool logged = false;" of every instantiation, before any call
NotLoggedYet ==
    /\ logged = [s \in OnceSites |-> FALSE]
    /\ oncePc = [t \in OnceCallers |-> OutOfOnce]
    /\ invoked = [s \in OnceSites |-> 0]

\* the viewer (src/src/main.cpp) and its LogParser before the first Open:
\* the thread of the screen is UI, the workers are numbered as they start
UI        == 0
WorkerIds == 1..MaxViewOps
NoWorker  == [pc |-> "unborn", file |-> "none", pos |-> 0, line_batch |-> <<>>,
              total_lines |-> 0, chunk_entries |-> <<>>, k |-> 0, back |-> "none",
              report |-> <<>>, asked |-> FALSE]
UiIdle    == [pc |-> "idle", op |-> "none", file |-> "none"]
Status(text, entries, lines) == [text |-> text, entries |-> entries, lines |-> lines]

ViewerStarted ==
    /\ parsing_active = FALSE
    /\ stop_requested = FALSE
    /\ parsing_thread = 0
    /\ worker = [w \in WorkerIds |-> NoWorker]
    /\ log_entries = <<>>
    /\ log_entries_mutex = {}
    /\ status_message = Status("Ready", 0, 0)
    /\ ui = UiIdle
    /\ quiet = FALSE
    /\ terminated = FALSE

\* hxLogger::hxLogger() and the member initialisers, when on is FALSE; with on
\* TRUE, the logger as the first call of a program, turnDebugOn(), leaves it
Started(on) ==
    /\ mIsColor = TRUE
    /\ mLogFile = FALSE
    /\ mIsLogging = on
    /\ mLogConsole = on
    /\ mIsDateTime = FALSE
    /\ mSetLevel = AllLevels
    /\ mMessageWidth = kMessageWidth
    /\ m_suppressedUnits = {}
    /\ mMutex = NoThread
    /\ mSharedMutex = {}
    /\ mFlogStream = [path |-> "none", fail |-> FALSE]
    /\ mOlogStream = "cout"
    /\ consoleOut = [s \in Streams |-> <<>>]
    /\ fileOut = [p \in Paths |-> <<>>]
    /\ pc = [t \in Callers |-> "idle"]
    /\ loc = [t \in Callers |-> NoLocals]
    /\ ret = [t \in Callers |-> NoResult]
    /\ ops = 0
    /\ joined = 0
    /\ aux = [t \in Callers |-> NoAux]
    /\ existed = {<<FALSE, AllLevels, FALSE, FALSE, TRUE, FALSE>>, Configuration}
    /\ supCalls = {}
    /\ last = NoCall
    /\ result = NoCall
    /\ frame = [t \in Callers |-> NoFrame]
    /\ NotLoggedYet
    /\ ViewerStarted

Init == Started(FALSE) /\ arg = <<>> /\ is_debug_build = FALSE

\* the concurrent runs start from either
InitThreads == \E on \in BOOLEAN : Started(on) /\ arg = <<>> /\ is_debug_build = FALSE

OpBudget(t) == IF t = Main THEN MaxSeqOps ELSE IF t = Fmt THEN MaxFmtOps
               ELSE IF t \in Racers THEN MaxRaceOps
               ELSE IF t \in Liners THEN MaxLineOps ELSE MaxOps

\* a caller that is between two calls and may start another one; the
\* concurrent callers run the same code on the same inputs, so they are
\* numbered in the order of their first call
CanCall(t) ==
    /\ pc[t] = "idle"
    /\ frame[t] = NoFrame
    /\ ops < OpBudget(t)
    /\ t \in Threads => t <= joined + 1

\* std::lock_guard<std::mutex> lock(mMutex) can be constructed
CanLock(t) == mMutex = NoThread

Goto(t, label) == pc' = [pc EXCEPT ![t] = label]
Return(t)  == /\ pc' = [pc EXCEPT ![t] = "idle"]
              /\ loc' = [loc EXCEPT ![t] = NoLocals]

\* turnDebugOn without its "if(mIsLogging) return;": what idempotence rules out
turnDebugOnAgain(t, log_flags) ==
    /\ CanCall(t)
    /\ ops' = ops + 1
    /\ Goto(t, "tdo_logging")
    /\ loc' = [loc EXCEPT ![t] = [op |-> "turnDebugOn", log_flags |-> log_flags]]
    /\ UNCHANGED <<config, guarded, sinks, mMutex, mSharedMutex, ret>>

\* changeDebugFlags with the test of turnDebugOn: an enabled logger keeps its mask
changeDebugFlagsIfOff(t, log_flags) ==
    /\ CanCall(t)
    /\ ops' = ops + 1
    /\ IF mIsLogging
         THEN UNCHANGED <<pc, loc>>
         ELSE /\ Goto(t, "tdo_logging")
              /\ loc' = [loc EXCEPT ![t] = [op |-> "changeDebugFlags", log_flags |-> log_flags]]
    /\ UNCHANGED <<config, guarded, sinks, mMutex, mSharedMutex, ret>>

\* turnDebugOff that also clears the console switch
turnDebugOffConsole(t) ==
    /\ CanCall(t)
    /\ ops' = ops + 1
    /\ mIsLogging' = FALSE
    /\ mLogConsole' = FALSE
    /\ UNCHANGED <<mIsDateTime, mIsColor, mLogFile, mMessageWidth, mSetLevel,
                   guarded, sinks, mMutex, mSharedMutex, pc, loc, ret>>

\* ----------------------------------------------------------------- mutators
\* turnDebugOn: "if(mIsLogging) return;"
turnDebugOn(t, log_flags) ==
    /\ CanCall(t)
    /\ ops' = ops + 1
    /\ IF mIsLogging
         THEN UNCHANGED <<pc, loc>>
         ELSE /\ Goto(t, "tdo_logging")
              /\ loc' = [loc EXCEPT ![t] = [op |-> "turnDebugOn", log_flags |-> log_flags]]
    /\ UNCHANGED <<config, guarded, sinks, mMutex, mSharedMutex, ret>>

\* changeDebugFlags: the same three stores as turnDebugOn, without its test
changeDebugFlags(t, log_flags) ==
    /\ CanCall(t)
    /\ ops' = ops + 1
    /\ mIsLogging' = TRUE
    /\ Goto(t, "tdo_console")
    /\ loc' = [loc EXCEPT ![t] = [op |-> "changeDebugFlags", log_flags |-> log_flags]]
    /\ UNCHANGED <<mIsDateTime, mIsColor, mLogFile, mLogConsole, mMessageWidth, mSetLevel,
                   guarded, sinks, mMutex, mSharedMutex, ret>>

\* "mLogConsole = mIsLogging = true;": the inner assignment is stored first
StoreLogging(t) ==
    /\ pc[t] = "tdo_logging"
    /\ mIsLogging' = TRUE
    /\ Goto(t, "tdo_console")
    /\ UNCHANGED <<mIsDateTime, mIsColor, mLogFile, mLogConsole, mMessageWidth, mSetLevel,
                   guarded, sinks, mMutex, mSharedMutex, loc, ret, ops>>

\* the chained assignment without its outer store: the console switch stays
StoreConsoleSkipped(t) ==
    /\ pc[t] = "tdo_console"
    /\ Goto(t, "tdo_level")
    /\ UNCHANGED <<config, guarded, sinks, mMutex, mSharedMutex, loc, ret, ops>>

StoreConsole(t) ==
    /\ pc[t] = "tdo_console"
    /\ mLogConsole' = TRUE
    /\ Goto(t, "tdo_level")
    /\ UNCHANGED <<mIsDateTime, mIsColor, mLogFile, mIsLogging, mMessageWidth, mSetLevel,
                   guarded, sinks, mMutex, mSharedMutex, loc, ret, ops>>

\* "mSetLevel = log_flags;"
StoreLevel(t) ==
    /\ pc[t] = "tdo_level"
    /\ mSetLevel' = loc[t].log_flags
    /\ Return(t)
    /\ UNCHANGED <<mIsDateTime, mIsColor, mLogFile, mIsLogging, mLogConsole, mMessageWidth,
                   guarded, sinks, mMutex, mSharedMutex, ret, ops>>

turnDebugOff(t) ==
    /\ CanCall(t)
    /\ ops' = ops + 1
    /\ mIsLogging' = FALSE
    /\ UNCHANGED <<mIsDateTime, mIsColor, mLogFile, mLogConsole, mMessageWidth, mSetLevel,
                   guarded, sinks, mMutex, mSharedMutex, pc, loc, ret>>

setColorToggle(t, use_color) ==
    /\ CanCall(t)
    /\ ops' = ops + 1
    /\ mIsColor' = use_color
    /\ UNCHANGED <<mIsDateTime, mLogFile, mIsLogging, mLogConsole, mMessageWidth, mSetLevel,
                   guarded, sinks, mMutex, mSharedMutex, pc, loc, ret>>

useDateTimeToggle(t, use_date) ==
    /\ CanCall(t)
    /\ ops' = ops + 1
    /\ mIsDateTime' = use_date
    /\ UNCHANGED <<mIsColor, mLogFile, mIsLogging, mLogConsole, mMessageWidth, mSetLevel,
                   guarded, sinks, mMutex, mSharedMutex, pc, loc, ret>>

\* useOStream without its lock_guard: the pointer is stored at any moment
useOStreamUnlocked(t, out) ==
    /\ CanCall(t)
    /\ ops' = ops + 1
    /\ mOlogStream' = out
    /\ UNCHANGED <<config, m_suppressedUnits, mFlogStream, sinks, mMutex, mSharedMutex,
                   pc, loc, ret>>

useOStream(t, out) ==
    /\ CanCall(t)
    /\ CanLock(t)
    /\ ops' = ops + 1
    /\ mOlogStream' = out
    /\ UNCHANGED <<config, m_suppressedUnits, mFlogStream, sinks, mMutex, mSharedMutex,
                   pc, loc, ret>>

setConsoleLogging(t, log) ==
    /\ CanCall(t)
    /\ ops' = ops + 1
    /\ mLogConsole' = log
    /\ UNCHANGED <<mIsDateTime, mIsColor, mLogFile, mIsLogging, mMessageWidth, mSetLevel,
                   guarded, sinks, mMutex, mSharedMutex, pc, loc, ret>>

setFileLogging(t, log) ==
    /\ CanCall(t)
    /\ ops' = ops + 1
    /\ mLogFile' = log
    /\ UNCHANGED <<mIsDateTime, mIsColor, mIsLogging, mLogConsole, mMessageWidth, mSetLevel,
                   guarded, sinks, mMutex, mSharedMutex, pc, loc, ret>>

\* a clamp that also resets the largest width
ClampWidthBelowMax(message_width) ==
    IF message_width = 0 \/ message_width >= kMaxMessageWidth
      THEN kMessageWidth
      ELSE message_width

\* the value setMessageWidth stores
ClampWidth(message_width) ==
    IF message_width = 0 \/ message_width > kMaxMessageWidth
      THEN kMessageWidth
      ELSE message_width

setMessageWidth(t, message_width) ==
    /\ CanCall(t)
    /\ ops' = ops + 1
    /\ mMessageWidth' = ClampWidth(message_width)
    /\ UNCHANGED <<mIsDateTime, mIsColor, mLogFile, mIsLogging, mLogConsole, mSetLevel,
                   guarded, sinks, mMutex, mSharedMutex, pc, loc, ret>>

suppressUnit(t, unit) ==
    /\ CanCall(t)
    /\ CanLock(t)
    /\ ops' = ops + 1
    /\ m_suppressedUnits' = m_suppressedUnits \cup {unit}
    /\ UNCHANGED <<config, mFlogStream, mOlogStream, sinks, mMutex, mSharedMutex, pc, loc, ret>>

unsuppressUnit(t, unit) ==
    /\ CanCall(t)
    /\ CanLock(t)
    /\ ops' = ops + 1
    /\ m_suppressedUnits' = m_suppressedUnits \ {unit}
    /\ UNCHANGED <<config, mFlogStream, mOlogStream, sinks, mMutex, mSharedMutex, pc, loc, ret>>

\* std::fstream::open(filename, ios::out): fails when a file is already open
\* or the path cannot be opened; a successful open truncates and clears the
\* stream state
FstreamOpen(stream, filename) ==
    IF stream.path # "none" THEN [stream EXCEPT !.fail = TRUE]
    ELSE IF filename \in Writable THEN [path |-> filename, fail |-> FALSE]
    ELSE [stream EXCEPT !.fail = TRUE]

is_open(stream) == stream.path # "none"

\* configureLogFile: lock_guard and "mFlogStream.open(filename, std::ios::out);"
configureLogFile(t, filename) ==
    /\ CanCall(t)
    /\ CanLock(t)
    /\ ops' = ops + 1
    /\ mMutex' = {t}
    /\ mFlogStream' = FstreamOpen(mFlogStream, filename)
    /\ fileOut' = IF mFlogStream'.path # mFlogStream.path
                    THEN [fileOut EXCEPT ![filename] = <<>>]
                    ELSE fileOut
    /\ Goto(t, "clf_store")
    /\ loc' = [loc EXCEPT ![t] = [op |-> "configureLogFile", filename |-> filename]]
    /\ UNCHANGED <<config, m_suppressedUnits, mOlogStream, consoleOut, mSharedMutex, ret>>

\* "mLogFile = mFlogStream.is_open();"
StoreLogFile(t) ==
    /\ pc[t] = "clf_store"
    /\ mLogFile' = is_open(mFlogStream)
    /\ Goto(t, "clf_return")
    /\ UNCHANGED <<mIsDateTime, mIsColor, mIsLogging, mLogConsole, mMessageWidth, mSetLevel,
                   guarded, sinks, mMutex, mSharedMutex, loc, ret, ops>>

\* "return mLogFile;" and the end of the lock_guard
ReturnLogFile(t) ==
    /\ pc[t] = "clf_return"
    /\ ret' = [ret EXCEPT ![t] = Returned(mLogFile)]
    /\ mMutex' = NoThread
    /\ Return(t)
    /\ UNCHANGED <<config, guarded, sinks, mSharedMutex, ops>>

\* isLogLevelEnabled: std::shared_lock<std::shared_mutex> lock(mSharedMutex)
EnterLevelEnabled(t, debug_level_flag) ==
    /\ pc[t] = "idle"
    /\ mSharedMutex' = mSharedMutex \cup {t}
    /\ Goto(t, "ile_load")
    /\ loc' = [loc EXCEPT ![t] = [op |-> "isLogLevelEnabled", level |-> debug_level_flag]]
    /\ UNCHANGED <<config, guarded, sinks, mMutex, ret>>

\* isLogLevelEnabled called by the program
isLogLevelEnabled(t, debug_level_flag) ==
    /\ CanCall(t)
    /\ ops' = ops + 1
    /\ EnterLevelEnabled(t, debug_level_flag)

\* "return has_level(mSetLevel, debug_level_flag);"
ReturnLevelEnabled(t) ==
    /\ pc[t] = "ile_load"
    /\ ret' = [ret EXCEPT ![t] = Returned(has_level(mSetLevel, loc[t].level))]
    /\ mSharedMutex' = mSharedMutex \ {t}
    /\ Return(t)
    /\ UNCHANGED <<config, guarded, sinks, mMutex, ops>>

\* ------------------------------------------------------------ text utilities
\* std::string_view::find: the first position >= start holding c, 0 for npos
Find(text, c, start) ==
    LET hits == {k \in start..Len(text) : text[k] = c}
    IN  IF hits = {} THEN 0 ELSE CHOOSE k \in hits : \A j \in hits : k <= j

\* the prefix before the last '.', as rfind would give it
RECURSIVE FindLast(_, _, _)
FindLast(text, c, start) ==
    IF start = 0 THEN 0
    ELSE IF text[start] = c THEN start
    ELSE FindLast(text, c, start - 1)

extractUnitNameLastDot(line_info) ==
    LET pos == FindLast(line_info, ".", Len(line_info))
    IN  IF pos # 0 THEN SubSeq(line_info, 1, pos - 1) ELSE line_info

extractUnitName(line_info) ==
    LET pos == Find(line_info, ".", 1)
    IN  IF pos # 0 THEN SubSeq(line_info, 1, pos - 1) ELSE line_info

\* the loop of tokenizeString with its local "start"
RECURSIVE TokenizeFrom(_, _, _)
TokenizeFrom(input, delim, start) ==
    LET end == Find(input, delim, start)
    IN  IF end # 0
          THEN <<SubSeq(input, start, end - 1)>> \o TokenizeFrom(input, delim, end + 1)
          ELSE IF start <= Len(input)
                 THEN <<SubSeq(input, start, Len(input))>>
                 ELSE <<>>

\* a split that counts what follows the last delimiter as a token even when
\* it is empty
tokenizeStringKeepLast(input, delim) ==
    TokenizeFrom(input, delim, 1)
       \o (IF input = <<>> \/ input[Len(input)] = delim THEN << <<>> >> ELSE <<>>)

tokenizeString(input, delim) == TokenizeFrom(input, delim, 1)

\* the loop of stripAnsiColors from index i on: the characters up to the
\* next ESC that a '[' follows are kept, the loop goes on after the 'm' that
\* ends the sequence, or ends with the text when there is none
RECURSIVE StripFrom(_, _)
StripFrom(text, i) ==
    LET starts == {k \in i..(Len(text) - 1) : text[k] = "ESC" /\ text[k + 1] = "["}
    IN  IF starts = {} THEN SubSeq(text, i, Len(text))
        ELSE LET first == CHOOSE k \in starts : \A j \in starts : k <= j
                 m     == Find(text, "m", first + 2)
             IN  SubSeq(text, i, first - 1)
                    \o (IF m = 0 THEN <<>> ELSE StripFrom(text, m + 1))

stripAnsiColors(text) == StripFrom(text, 1)

Spaces(n) == [k \in 1..n |-> " "]

\* a field that is never padded
LeftSetwUnpadded(text, width) == text

\* "std::left << std::setw(width) << text"
LeftSetw(text, width) ==
    IF Len(text) >= width THEN text ELSE text \o Spaces(width - Len(text))

\* the labels set to the left of their six columns
PlainTagLeft(level) ==
    CASE level = TRACE  -> <<"T", "R", "A", "C", "E", " ">>
      [] level = DEBUG  -> <<"D", "E", "B", "U", "G", " ">>
      [] level = INFO   -> <<"I", "N", "F", "O", " ", " ">>
      [] level = WARN   -> <<"W", "A", "R", "N", " ", " ">>
      [] level = ERROR  -> <<"E", "R", "R", "O", "R", " ">>
      [] level = HEADER -> <<"H", "E", "A", "D", "E", "R">>
      [] level = FOOTER -> <<"F", "O", "O", "T", "E", "R">>
      [] level = NOTICE -> <<"N", "O", "T", "I", "C", "E">>
      [] OTHER          -> <<"D", "E", "B", "U", "G", " ">>

PlainTag(level) ==
    CASE level = TRACE  -> <<" ", "T", "R", "A", "C", "E">>
      [] level = DEBUG  -> <<" ", "D", "E", "B", "U", "G">>
      [] level = INFO   -> <<" ", " ", "I", "N", "F", "O">>
      [] level = WARN   -> <<" ", " ", "W", "A", "R", "N">>
      [] level = ERROR  -> <<" ", "E", "R", "R", "O", "R">>
      [] level = HEADER -> <<"H", "E", "A", "D", "E", "R">>
      [] level = FOOTER -> <<"F", "O", "O", "T", "E", "R">>
      [] level = NOTICE -> <<"N", "O", "T", "I", "C", "E">>
      [] OTHER          -> <<" ", "D", "E", "B", "U", "G">>

ColorCode(level) ==
    CASE level = TRACE  -> <<"3", "7", ";", "1">>
      [] level = DEBUG  -> <<"3", "6", ";", "1">>
      [] level = INFO   -> <<"3", "2", ";", "1">>
      [] level = WARN   -> <<"3", "3", ";", "1">>
      [] level = ERROR  -> <<"3", "1", ";", "1">>
      [] level = HEADER -> <<"3", "7", ";", "4", "4", ";", "1">>
      [] level = FOOTER -> <<"3", "7", ";", "4", "4", ";", "1">>
      [] level = NOTICE -> <<"3", "5", ";", "5", ";", "2", "0", "8", ";", "1">>
      [] OTHER          -> <<"3", "6", ";", "1">>

\* warnType with the value of mIsColor it loads
warnType(level, override_color, isColor) ==
    IF ~override_color /\ isColor
      THEN <<"ESC", "[">> \o ColorCode(level) \o <<"m">> \o PlainTag(level)
              \o <<"ESC", "[", "0", "m">>
      ELSE PlainTag(level)

\* timestamp(isDateTime): "t" stands for HH:MM:SS.mmm, "d" for YYYY-MM-DD
timestamp(isDateTime) == IF isDateTime THEN <<"d", " ", "t">> ELSE <<"t">>

\* "(level & Level::HEADER) == Level::HEADER || ... FOOTER ... || ... NOTICE"
IsBanner(level) ==
    \/ BitAnd(level, HEADER) = HEADER
    \/ BitAnd(level, FOOTER) = FOOTER
    \/ BitAnd(level, NOTICE) = NOTICE

\* '[' << ts << "][" << tag << ']' << sep << field << "| " << line_info
FormatLine(ts, tag, sep, field, line_info) ==
    <<"[">> \o ts \o <<"]", "[">> \o tag \o <<"]">> \o sep \o field \o <<"|", " ">> \o line_info

\* ---------------------------------------------------------------------- log
Unlock == mMutex' = NoThread

\* the filter-and-snapshot block of log(), entered with mMutex held
SnapshotSection == {"log_logging", "log_level", "log_file", "log_console",
                    "log_unit", "snap_file", "snap_color", "snap_date"}

\* log(): the lock_guard of the snapshot block
EnterLog(t, message, level, line_info) ==
    /\ pc[t] = "idle"
    /\ CanLock(t)
    /\ mMutex' = {t}
    /\ Goto(t, "log_logging")
    /\ loc' = [loc EXCEPT ![t] =
                 [op |-> "log", message |-> message, level |-> level, line_info |-> line_info,
                  seen_level |-> 0, seen_file |-> FALSE,
                  log_to_console |-> FALSE, log_to_file |-> FALSE,
                  is_color |-> FALSE, is_date_time |-> FALSE,
                  strings |-> <<>>, tokens |-> <<>>, i |-> 0,
                  level_string |-> <<>>, line |-> <<>>]]
    /\ UNCHANGED <<config, guarded, sinks, mSharedMutex, ret>>

\* log() called by the program
log(t, message, level, line_info) ==
    /\ CanCall(t)
    /\ ops' = ops + 1
    /\ EnterLog(t, message, level, line_info)

\* "should_log = mIsLogging && ..."
LoadLogging(t) ==
    /\ pc[t] = "log_logging"
    /\ IF mIsLogging
         THEN Goto(t, "log_level") /\ UNCHANGED <<loc, mMutex>>
         ELSE Return(t) /\ Unlock
    /\ UNCHANGED <<config, guarded, sinks, mSharedMutex, ret, ops>>

\* "... && has_level(mSetLevel, level) && ..."
LoadLevel(t) ==
    /\ pc[t] = "log_level"
    /\ IF has_level(mSetLevel, loc[t].level)
         THEN /\ Goto(t, "log_file")
              /\ loc' = [loc EXCEPT ![t].seen_level = mSetLevel]
              /\ UNCHANGED mMutex
         ELSE Return(t) /\ Unlock
    /\ UNCHANGED <<config, guarded, sinks, mSharedMutex, ret, ops>>

\* "... && (mLogFile || ...)"
LoadFile(t) ==
    /\ pc[t] = "log_file"
    /\ Goto(t, IF mLogFile THEN "log_unit" ELSE "log_console")
    /\ UNCHANGED <<config, guarded, sinks, mMutex, mSharedMutex, loc, ret, ops>>

\* "... || mLogConsole)" and "if (!should_log) return;"
LoadConsole(t) ==
    /\ pc[t] = "log_console"
    /\ IF mLogConsole
         THEN Goto(t, "log_unit") /\ UNCHANGED <<loc, mMutex>>
         ELSE Return(t) /\ Unlock
    /\ UNCHANGED <<config, guarded, sinks, mSharedMutex, ret, ops>>

\* a suppression test on the whole descriptor instead of its unit name
IsSuppressedDescriptor(line_info) == line_info \in m_suppressedUnits

\* "m_suppressedUnits.find(unit) != m_suppressedUnits.end()"
IsSuppressed(line_info) == extractUnitName(line_info) \in m_suppressedUnits

\* the suppression test, then "log_to_console = mLogConsole;"
SnapConsole(t) ==
    /\ pc[t] = "log_unit"
    /\ IF IsSuppressed(loc[t].line_info)
         THEN Return(t) /\ Unlock
         ELSE /\ Goto(t, "snap_file")
              /\ loc' = [loc EXCEPT ![t].log_to_console = mLogConsole]
              /\ UNCHANGED mMutex
    /\ UNCHANGED <<config, guarded, sinks, mSharedMutex, ret, ops>>

\* a snapshot that takes the file switch for the state of the stream
SnapFileSwitchOnly(t) ==
    /\ pc[t] = "snap_file"
    /\ loc' = [loc EXCEPT ![t].seen_file = mLogFile,
                          ![t].log_to_file = mLogFile]
    /\ Goto(t, "snap_color")
    /\ UNCHANGED <<config, guarded, sinks, mMutex, mSharedMutex, ret, ops>>

\* "log_to_file = mLogFile && mFlogStream.is_open();"
SnapFile(t) ==
    /\ pc[t] = "snap_file"
    /\ loc' = [loc EXCEPT ![t].seen_file = mLogFile,
                          ![t].log_to_file = mLogFile /\ is_open(mFlogStream)]
    /\ Goto(t, "snap_color")
    /\ UNCHANGED <<config, guarded, sinks, mMutex, mSharedMutex, ret, ops>>

\* "is_color = mIsColor;"
SnapColor(t) ==
    /\ pc[t] = "snap_color"
    /\ loc' = [loc EXCEPT ![t].is_color = mIsColor]
    /\ Goto(t, "snap_date")
    /\ UNCHANGED <<config, guarded, sinks, mMutex, mSharedMutex, ret, ops>>

\* "is_date_time = mIsDateTime;", the end of the block, and the local work up
\* to the next access of shared state: tokenizeString on the normal path
\* the snapshot block without its closing brace: the lock_guard lives on
SnapDateLocked(t) ==
    /\ pc[t] = "snap_date"
    /\ LET strings == tokenizeString(loc[t].message, "\n")
       IN  /\ loc' = [loc EXCEPT ![t].is_date_time = mIsDateTime,
                                 ![t].strings = IF IsBanner(loc[t].level) THEN <<>> ELSE strings]
           /\ Goto(t, IF IsBanner(loc[t].level) THEN "ban_tag"
                      ELSE IF strings = <<>> THEN "log_tag" ELSE "tok_test")
    /\ UNCHANGED <<config, guarded, sinks, mMutex, mSharedMutex, ret, ops>>

SnapDate(t) ==
    /\ pc[t] = "snap_date"
    /\ Unlock
    /\ LET strings == tokenizeString(loc[t].message, "\n")
       IN  /\ loc' = [loc EXCEPT ![t].is_date_time = mIsDateTime,
                                 ![t].strings = IF IsBanner(loc[t].level) THEN <<>> ELSE strings]
           /\ Goto(t, IF IsBanner(loc[t].level) THEN "ban_tag"
                      ELSE IF strings = <<>> THEN "log_tag" ELSE "tok_test")
    /\ UNCHANGED <<config, guarded, sinks, mSharedMutex, ret, ops>>

\* a std::exception leaves log()
Throw(t, what) ==
    /\ Return(t)
    /\ ret' = [ret EXCEPT ![t] = Threw(what)]

\* tokenizeLineLength: "while (str.length() >= mMessageWidth)", and
\* "new_tokens.emplace_back(str);" when the test fails
TokTest(t) ==
    /\ pc[t] = "tok_test"
    /\ LET str == Head(loc[t].strings)
       IN  IF Len(str) >= mMessageWidth
             THEN Goto(t, "tok_head") /\ UNCHANGED loc
             ELSE /\ loc' = [loc EXCEPT ![t].tokens = Append(@, str),
                                        ![t].strings = Tail(@)]
                  /\ Goto(t, IF Len(loc[t].strings) = 1 THEN "log_tag" ELSE "tok_test")
    /\ UNCHANGED <<config, guarded, sinks, mMutex, mSharedMutex, ret, ops>>

\* "new_tokens.emplace_back(str.substr(0, mMessageWidth));"
TokHead(t) ==
    /\ pc[t] = "tok_head"
    /\ LET str == Head(loc[t].strings)
           n   == IF mMessageWidth < Len(str) THEN mMessageWidth ELSE Len(str)
       IN  loc' = [loc EXCEPT ![t].tokens = Append(@, SubSeq(str, 1, n))]
    /\ Goto(t, "tok_tail")
    /\ UNCHANGED <<config, guarded, sinks, mMutex, mSharedMutex, ret, ops>>

\* "str = str.substr(mMessageWidth);": substr throws when pos > size()
TokTail(t) ==
    /\ pc[t] = "tok_tail"
    /\ LET str == Head(loc[t].strings)
       IN  IF mMessageWidth > Len(str)
             THEN Throw(t, "out_of_range")
             ELSE /\ loc' = [loc EXCEPT ![t].strings =
                               <<SubSeq(str, mMessageWidth + 1, Len(str))>> \o Tail(@)]
                  /\ Goto(t, "tok_test")
                  /\ UNCHANGED ret
    /\ UNCHANGED <<config, guarded, sinks, mMutex, mSharedMutex, ops>>

\* where the segment loop goes for segment i (0-based), or out of log()
SegmentPc(l, i) ==
    IF i >= Len(l.tokens) \/ (~l.log_to_console /\ ~l.log_to_file) THEN "idle"
    ELSE IF l.log_to_console THEN "con_width"
    ELSE "file_width"

\* "level_string = warnType(level);" loads mIsColor; then the loop starts
LogTag(t) ==
    /\ pc[t] = "log_tag"
    /\ IF SegmentPc(loc[t], 0) = "idle"
         THEN Return(t)
         ELSE /\ loc' = [loc EXCEPT ![t].level_string = warnType(loc[t].level, FALSE, mIsColor)]
              /\ Goto(t, SegmentPc(loc[t], 0))
    /\ UNCHANGED <<config, guarded, sinks, mMutex, mSharedMutex, ret, ops>>

\* the tag a console line carries: "(is_color ? level_string : level_string_nocolor)"
ConsoleTag(l) == IF l.is_color THEN l.level_string ELSE warnType(l.level, TRUE, FALSE)

\* every line marked as the first
SeparatorFirst(i) == <<":", " ">>

Separator(i) == IF i = 0 THEN <<":", " ">> ELSE <<">", " ">>

\* the console line of segment i: "std::setw(static_cast<int>(mMessageWidth))"
ConWidth(t) ==
    /\ pc[t] = "con_width"
    /\ loc' = [loc EXCEPT ![t].line =
                 FormatLine(timestamp(loc[t].is_date_time), ConsoleTag(loc[t]),
                            Separator(loc[t].i),
                            LeftSetw(loc[t].tokens[loc[t].i + 1], mMessageWidth),
                            loc[t].line_info)]
    /\ Goto(t, "con_lock")
    /\ UNCHANGED <<config, guarded, sinks, mMutex, mSharedMutex, ret, ops>>

\* the text of a console line written without holding mMutex
ConLockText(t) ==
    /\ pc[t] = "con_lock"
    /\ consoleOut' = [consoleOut EXCEPT ![mOlogStream] = Append(@, loc[t].line)]
    /\ Goto(t, "con_flush")
    /\ UNCHANGED <<config, guarded, fileOut, mMutex, mSharedMutex, loc, ret, ops>>

\* lock_guard and "*mOlogStream << oss.str()"
ConLock(t) ==
    /\ pc[t] = "con_lock"
    /\ CanLock(t)
    /\ mMutex' = {t}
    /\ consoleOut' = [consoleOut EXCEPT ![mOlogStream] = Append(@, loc[t].line)]
    /\ Goto(t, "con_flush")
    /\ UNCHANGED <<config, guarded, fileOut, mSharedMutex, loc, ret, ops>>

\* a loop that writes the console line of the next segment before the file
\* line of this one
AfterConsoleNextSegment(l) ==
    IF IsBanner(l.level) THEN (IF l.log_to_file THEN "ban_fwidth" ELSE "idle")
    ELSE IF l.i + 1 < Len(l.tokens) THEN "con_width"
    ELSE IF l.log_to_file THEN "file_width"
    ELSE "idle"

\* after the console write of a line: the file write, or what follows it
AfterConsole(l) ==
    IF l.log_to_file THEN (IF IsBanner(l.level) THEN "ban_fwidth" ELSE "file_width")
    ELSE IF IsBanner(l.level) THEN "idle"
    ELSE SegmentPc(l, l.i + 1)

AfterFile(l) == IF IsBanner(l.level) THEN "idle" ELSE SegmentPc(l, l.i + 1)

\* leave a write for the file write of the same segment (same_segment), for
\* the next segment, or for the return of log()
Leave(t, label, same_segment) ==
    IF label = "idle" THEN Return(t)
    ELSE /\ Goto(t, label)
         /\ loc' = [loc EXCEPT ![t].i = IF same_segment THEN @ ELSE @ + 1,
                               ![t].line = <<>>]

\* "<< '\n'; mOlogStream->flush();" and the end of the lock_guard
ConFlush(t) ==
    /\ pc[t] = "con_flush"
    /\ consoleOut' = [consoleOut EXCEPT ![mOlogStream] = Append(@, <<"\n">>)]
    /\ Unlock
    /\ Leave(t, AfterConsole(loc[t]), loc[t].log_to_file)
    /\ UNCHANGED <<config, guarded, fileOut, mSharedMutex, ret, ops>>

\* the file line of segment i
FileWidth(t) ==
    /\ pc[t] = "file_width"
    /\ loc' = [loc EXCEPT ![t].line =
                 FormatLine(timestamp(loc[t].is_date_time), warnType(loc[t].level, TRUE, FALSE),
                            Separator(loc[t].i),
                            LeftSetw(loc[t].tokens[loc[t].i + 1], mMessageWidth),
                            loc[t].line_info)]
    /\ Goto(t, "file_lock")
    /\ UNCHANGED <<config, guarded, sinks, mMutex, mSharedMutex, ret, ops>>

\* operator<< on the fstream: nothing is written once failbit is set
StreamWrite(stream, files, text) ==
    IF stream.fail \/ stream.path = "none" THEN files
    ELSE [files EXCEPT ![stream.path] = Append(@, text)]

\* lock_guard and "mFlogStream << fss.str()"
FileLock(t) ==
    /\ pc[t] = "file_lock"
    /\ CanLock(t)
    /\ mMutex' = {t}
    /\ fileOut' = StreamWrite(mFlogStream, fileOut, loc[t].line)
    /\ Goto(t, "file_flush")
    /\ UNCHANGED <<config, guarded, consoleOut, mSharedMutex, loc, ret, ops>>

\* "<< '\n'; mFlogStream.flush();" and the end of the lock_guard
FileFlush(t) ==
    /\ pc[t] = "file_flush"
    /\ fileOut' = StreamWrite(mFlogStream, fileOut, <<"\n">>)
    /\ Unlock
    /\ Leave(t, AfterFile(loc[t]), FALSE)
    /\ UNCHANGED <<config, guarded, consoleOut, mSharedMutex, ret, ops>>

\* banner path: "level_string = warnType(level);" loads mIsColor
BanTag(t) ==
    /\ pc[t] = "ban_tag"
    /\ IF ~loc[t].log_to_console /\ ~loc[t].log_to_file
         THEN Return(t)
         ELSE /\ loc' = [loc EXCEPT ![t].level_string = warnType(loc[t].level, FALSE, mIsColor)]
              /\ Goto(t, IF loc[t].log_to_console THEN "ban_test" ELSE "ban_fwidth")
    /\ UNCHANGED <<config, guarded, sinks, mMutex, mSharedMutex, ret, ops>>

BannerLine(l, padded) ==
    FormatLine(timestamp(l.is_date_time), ConsoleTag(l), <<":", " ">>, padded, l.line_info)

\* "if (visible_width < mMessageWidth)"
BanTest(t) ==
    /\ pc[t] = "ban_test"
    /\ IF Len(stripAnsiColors(loc[t].message)) < mMessageWidth
         THEN Goto(t, "ban_pad") /\ UNCHANGED loc
         ELSE /\ loc' = [loc EXCEPT ![t].line = BannerLine(loc[t], loc[t].message)]
              /\ Goto(t, "con_lock")
    /\ UNCHANGED <<config, guarded, sinks, mMutex, mSharedMutex, ret, ops>>

\* "padding_needed = mMessageWidth - visible_width;" in size_t: a width now
\* below visible_width wraps around and std::string(padding_needed, ' ') throws
BanPad(t) ==
    /\ pc[t] = "ban_pad"
    /\ LET visible_width == Len(stripAnsiColors(loc[t].message))
       IN  IF mMessageWidth < visible_width
             THEN Throw(t, "length_error")
             ELSE /\ loc' = [loc EXCEPT ![t].line =
                               BannerLine(loc[t], loc[t].message
                                                    \o Spaces(mMessageWidth - visible_width))]
                  /\ Goto(t, "con_lock")
                  /\ UNCHANGED ret
    /\ UNCHANGED <<config, guarded, sinks, mMutex, mSharedMutex, ops>>

\* the file line of the banner path with the message as it came
BanFileWidthRaw(t) ==
    /\ pc[t] = "ban_fwidth"
    /\ loc' = [loc EXCEPT ![t].line =
                 FormatLine(timestamp(loc[t].is_date_time), warnType(loc[t].level, TRUE, FALSE),
                            <<":", " ">>, LeftSetw(loc[t].message, mMessageWidth),
                            loc[t].line_info)]
    /\ Goto(t, "file_lock")
    /\ UNCHANGED <<config, guarded, sinks, mMutex, mSharedMutex, ret, ops>>

\* banner path, file line: the ANSI-stripped message under std::setw
BanFileWidth(t) ==
    /\ pc[t] = "ban_fwidth"
    /\ loc' = [loc EXCEPT ![t].line =
                 FormatLine(timestamp(loc[t].is_date_time), warnType(loc[t].level, TRUE, FALSE),
                            <<":", " ">>,
                            LeftSetw(stripAnsiColors(loc[t].message), mMessageWidth),
                            loc[t].line_info)]
    /\ Goto(t, "file_lock")
    /\ UNCHANGED <<config, guarded, sinks, mMutex, mSharedMutex, ret, ops>>

\* ------------------------------------------------------------ specifications
\* a configuration is <<mIsLogging, mSetLevel, mLogConsole, mLogFile, mIsColor,
\* mIsDateTime>>. What a mutator call makes of configuration c when the whole
\* call happens at once; configureLogFile leaves mLogFile true or false, as the
\* open succeeds or fails.
Effect(e, c) ==
    CASE e.op = "turnDebugOn"       -> {IF c[1] THEN c ELSE <<TRUE, e.mask, TRUE, c[4], c[5], c[6]>>}
      [] e.op = "changeDebugFlags"  -> {<<TRUE, e.mask, TRUE, c[4], c[5], c[6]>>}
      [] e.op = "turnDebugOff"      -> {[c EXCEPT ![1] = FALSE]}
      [] e.op = "setConsoleLogging" -> {[c EXCEPT ![3] = e.flag]}
      [] e.op = "setFileLogging"    -> {[c EXCEPT ![4] = e.flag]}
      [] e.op = "configureLogFile"  -> {[c EXCEPT ![4] = TRUE], [c EXCEPT ![4] = FALSE]}
      [] e.op = "setColorToggle"    -> {[c EXCEPT ![5] = e.flag]}
      [] e.op = "useDateTimeToggle" -> {[c EXCEPT ![6] = e.flag]}
      [] OTHER                      -> {c}

\* a call as Effect reads it: its name, with its mask or its switch
MaskCalls == {"turnDebugOn", "changeDebugFlags"}
FlagCalls == {"setConsoleLogging", "setFileLogging", "setColorToggle", "useDateTimeToggle"}

CallMade(op, a) ==
    [op   |-> op,
     mask |-> IF op \in MaskCalls THEN a ELSE 0,
     flag |-> IF op \in FlagCalls THEN a ELSE FALSE]

\* the configurations that the calls in "calls", made in any order and any
\* number of times, make of those in "known"
RECURSIVE Reachable(_, _)
Reachable(known, calls) ==
    LET more == known \cup UNION {Effect(e, c) : e \in calls, c \in known}
    IN  IF more = known THEN known ELSE Reachable(more, calls)

\* positions inside turnDebugOn, changeDebugFlags and configureLogFile
MutatorSection == {"tdo_logging", "tdo_console", "tdo_level", "clf_store", "clf_return"}

\* the mutator calls that have started and not returned
InFlight ==
    {CallMade(loc[u].op, IF loc[u].op \in MaskCalls THEN loc[u].log_flags ELSE 0) :
        u \in {v \in Callers : pc[v] \in MutatorSection}}

\* the configurations in memory when no mutator call is under way
Quiescent == IF \A u \in Callers : pc'[u] \notin MutatorSection
               THEN {Configuration'} ELSE {}

\* the sequential runs record the call made and the settings it found; every
\* run records which units the suppressUnit / unsuppressUnit calls name, and
\* which configurations the calls made so far can have produced, each call
\* taking effect at one moment between its start and its return
Called(t, rec, op, a) ==
    /\ joined' = IF t \in Threads /\ t > joined THEN t ELSE joined
    /\ IF rec THEN last' = [op |-> op, arg |-> a, pre |-> Settings, out |-> sinks]
       ELSE UNCHANGED last
    /\ supCalls' = CASE op = "suppressUnit"   -> supCalls \cup {a}
                     [] op = "unsuppressUnit" -> supCalls \ {a}
                     [] OTHER                 -> supCalls
    /\ existed' = Reachable(existed, InFlight \cup {CallMade(op, a)}) \cup Quiescent

\* the history kept for the properties: it reads the program, never steers it
Observe(t) ==
    aux' = [u \in Callers |->
              IF pc'[u] = "idle" THEN NoAux
              ELSE IF pc'[u] \in SnapshotSection
                THEN [okSeen |-> \/ (pc[u] \in SnapshotSection /\ aux[u].okSeen)
                                 \/ /\ mIsLogging'
                                    /\ has_level(mSetLevel', loc'[u].level)
                                    /\ (mLogFile' \/ mLogConsole'),
                      sup    |-> IF pc[u] = "idle"
                                   THEN extractUnitName(loc'[u].line_info) \in supCalls
                                   ELSE aux[u].sup,
                      wrote  |-> 0]
              ELSE [aux[u] EXCEPT !.wrote = IF u = t /\ sinks' # sinks THEN @ + 1 ELSE @]]

\* a step inside a call makes no call
NoCallMade ==
    /\ UNCHANGED <<last, supCalls, joined>>
    /\ existed' = existed \cup Quiescent

\* one step of caller t: what the program does, and what is recorded of it
Do(t, action, record) ==
    /\ action
    /\ record
    /\ Observe(t)
    /\ UNCHANGED <<arg, result, layer>>

\* the calls of the public interface
Call(t, rec) ==
    \/ \E m \in MaskArgs(t) : Do(t, turnDebugOn(t, m), Called(t, rec, "turnDebugOn", m))
    \/ \E m \in MaskArgs(t) : Do(t, changeDebugFlags(t, m), Called(t, rec, "changeDebugFlags", m))
    \/ Do(t, turnDebugOff(t), Called(t, rec, "turnDebugOff", 0))
    \/ \E b \in BOOLEAN : Do(t, setColorToggle(t, b), Called(t, rec, "setColorToggle", b))
    \/ \E b \in BOOLEAN : Do(t, useDateTimeToggle(t, b), Called(t, rec, "useDateTimeToggle", b))
    \/ \E o \in Streams : Do(t, useOStream(t, o), Called(t, rec, "useOStream", o))
    \/ \E b \in BOOLEAN : Do(t, setConsoleLogging(t, b), Called(t, rec, "setConsoleLogging", b))
    \/ \E b \in BOOLEAN : Do(t, setFileLogging(t, b), Called(t, rec, "setFileLogging", b))
    \/ \E w \in WidthArgs(t) : Do(t, setMessageWidth(t, w), Called(t, rec, "setMessageWidth", w))
    \/ \E u \in UnitArgs : Do(t, suppressUnit(t, u), Called(t, rec, "suppressUnit", u))
    \/ \E u \in UnitArgs : Do(t, unsuppressUnit(t, u), Called(t, rec, "unsuppressUnit", u))
    \/ \E f \in Paths : Do(t, configureLogFile(t, f), Called(t, rec, "configureLogFile", f))
    \/ \E l \in LevelArgs(t) : Do(t, isLogLevelEnabled(t, l), Called(t, rec, "isLogLevelEnabled", l))
    \/ \E m \in Messages(t), l \in LevelArgs(t), i \in LineInfos :
          Do(t, log(t, m, l, i), Called(t, rec, "log", <<m, l, i>>))

\* the steps inside a call
Inside(t) ==
    \/ Do(t, StoreLogging(t), NoCallMade)
    \/ Do(t, StoreConsole(t), NoCallMade)
    \/ Do(t, StoreLevel(t), NoCallMade)
    \/ Do(t, StoreLogFile(t), NoCallMade)
    \/ Do(t, ReturnLogFile(t), NoCallMade)
    \/ Do(t, ReturnLevelEnabled(t), NoCallMade)
    \/ Do(t, LoadLogging(t), NoCallMade)
    \/ Do(t, LoadLevel(t), NoCallMade)
    \/ Do(t, LoadFile(t), NoCallMade)
    \/ Do(t, LoadConsole(t), NoCallMade)
    \/ Do(t, SnapConsole(t), NoCallMade)
    \/ Do(t, SnapFile(t), NoCallMade)
    \/ Do(t, SnapColor(t), NoCallMade)
    \/ Do(t, SnapDate(t), NoCallMade)
    \/ Do(t, TokTest(t), NoCallMade)
    \/ Do(t, TokHead(t), NoCallMade)
    \/ Do(t, TokTail(t), NoCallMade)
    \/ Do(t, LogTag(t), NoCallMade)
    \/ Do(t, ConWidth(t), NoCallMade)
    \/ Do(t, ConLock(t), NoCallMade)
    \/ Do(t, ConFlush(t), NoCallMade)
    \/ Do(t, FileWidth(t), NoCallMade)
    \/ Do(t, FileLock(t), NoCallMade)
    \/ Do(t, FileFlush(t), NoCallMade)
    \/ Do(t, BanTag(t), NoCallMade)
    \/ Do(t, BanTest(t), NoCallMade)
    \/ Do(t, BanPad(t), NoCallMade)
    \/ Do(t, BanFileWidth(t), NoCallMade)

Step(t, rec) == Call(t, rec) \/ Inside(t)

Next == \E t \in Threads : Step(t, FALSE)

Spec == InitThreads /\ [][Next]_vars

\* two threads of the host program, each scheduled again and again
NextRace == \E t \in Racers : Step(t, FALSE)

SpecRace == InitThreads /\ [][NextRace]_vars /\ \A t \in Racers : WF_vars(Step(t, FALSE))

\* the logger after turnDebugOn() and configureLogFile("p1"): enabled, with
\* the console and an open file as its sinks
Configured ==
    /\ mIsColor = TRUE
    /\ mLogFile = TRUE
    /\ mIsLogging = TRUE
    /\ mLogConsole = TRUE
    /\ mIsDateTime = FALSE
    /\ mSetLevel = AllLevels
    /\ mMessageWidth = kMessageWidth
    /\ m_suppressedUnits = {}
    /\ mMutex = NoThread
    /\ mSharedMutex = {}
    /\ mFlogStream = FstreamOpen([path |-> "none", fail |-> FALSE], "p1")
    /\ mOlogStream = "cout"
    /\ consoleOut = [s \in Streams |-> <<>>]
    /\ fileOut = [p \in Paths |-> <<>>]
    /\ pc = [t \in Callers |-> "idle"]
    /\ loc = [t \in Callers |-> NoLocals]
    /\ ret = [t \in Callers |-> NoResult]
    /\ ops = 0
    /\ joined = 0
    /\ aux = [t \in Callers |-> NoAux]
    /\ existed = {<<FALSE, AllLevels, FALSE, FALSE, TRUE, FALSE>>,
                  <<TRUE, AllLevels, TRUE, FALSE, TRUE, FALSE>>, Configuration}
    /\ supCalls = {}
    /\ last = NoCall
    /\ result = NoCall
    /\ frame = [t \in Callers |-> NoFrame]
    /\ NotLoggedYet
    /\ ViewerStarted
    /\ arg = <<>>
    /\ is_debug_build = FALSE

\* one caller of multi-line messages, call after call
NextSplit == Step(Liner, TRUE)

SpecSplit == Configured /\ [][NextSplit]_vars

\* two callers of multi-line messages at once
NextOrder == \E t \in Liners : Step(t, FALSE)

SpecOrder == Configured /\ [][NextOrder]_vars

\* ------------------------------------------------------------- log_once
\* log_once(logFunc) for the lambda of site s: "if constexpr(is_debug_build)"
log_once(t, s) ==
    /\ oncePc[t] = OutOfOnce
    /\ ops < MaxOnceOps
    /\ ops' = ops + 1
    /\ oncePc' = IF is_debug_build THEN [oncePc EXCEPT ![t] = [at |-> "test", site |-> s]]
                 ELSE oncePc
    /\ UNCHANGED <<logged, invoked>>

\* "if(!logged)"
TestLogged(t) ==
    /\ oncePc[t].at = "test"
    /\ oncePc' = IF logged[oncePc[t].site] THEN [oncePc EXCEPT ![t] = OutOfOnce]
                 ELSE [oncePc EXCEPT ![t].at = "call"]
    /\ UNCHANGED <<logged, invoked, ops>>

\* "logFunc();"
CallLogFunc(t) ==
    /\ oncePc[t].at = "call"
    /\ invoked' = [invoked EXCEPT ![oncePc[t].site] = @ + 1]
    /\ oncePc' = [oncePc EXCEPT ![t].at = "store"]
    /\ UNCHANGED <<logged, ops>>

\* "logged = true;"
StoreLogged(t) ==
    /\ oncePc[t].at = "store"
    /\ logged' = [logged EXCEPT ![oncePc[t].site] = TRUE]
    /\ oncePc' = [oncePc EXCEPT ![t] = OutOfOnce]
    /\ UNCHANGED <<invoked, ops>>

\* a step of log_once touches nothing of the logger
DoOnce(action) ==
    /\ action
    /\ UNCHANGED <<config, guarded, sinks, mMutex, mSharedMutex, pc, loc, ret>>
    /\ UNCHANGED <<history, arg, result, frame, is_debug_build, viewer>>

InitOnce == Started(FALSE) /\ arg = <<>> /\ is_debug_build \in BOOLEAN

NextOnce ==
    \E t \in OnceCallers :
        \/ \E s \in OnceSites : DoOnce(log_once(t, s))
        \/ DoOnce(TestLogged(t))
        \/ DoOnce(CallLogFunc(t))
        \/ DoOnce(StoreLogged(t))

SpecOnce == InitOnce /\ [][NextOnce]_vars

NextSeq == Step(Main, TRUE)

SpecSeq == Init /\ [][NextSeq]_vars

\* ------------------------------------------- convenience functions
\* helix::log::header, footer, notice, debug, trace, info, warn, error and
\* log_fmt, run by one caller. A format_string is the format text with the
\* std::source_location of the call; the arguments are strings.
Functions == {"trace", "debug", "info", "warn", "error", "header", "footer", "notice"}
BannerFunctions == {"header", "footer", "notice"}
Formats   == {<<"x">>, <<"{", "}">>, <<"{", ":", "d", "}">>}
ArgLists  == {<<>>, <<<<"v">>>>}
Locations == {[file |-> <<"a", ".", "c">>, function |-> <<"f">>, line |-> <<"7">>],
              [file |-> <<"a", "b", ".", "c">>, function |-> <<"g">>, line |-> <<"9">>]}

\* std::vformat(fmt, std::make_format_args(args...)) with string arguments:
\* "{}" takes the next argument, "{{" and "}}" are braces, and a lone brace,
\* a missing argument or a specification a string does not have (":d") is a
\* std::format_error
Formatted(text) == [ok |-> TRUE, text |-> text]
FormatError == [ok |-> FALSE, text |-> <<>>]
Prefixed(head, rest) == IF rest.ok THEN Formatted(head \o rest.text) ELSE FormatError

RECURSIVE VformatFrom(_, _, _, _)
VformatFrom(fmt, args, i, next) ==
    IF i > Len(fmt) THEN Formatted(<<>>)
    ELSE IF fmt[i] = "{"
      THEN IF i < Len(fmt) /\ fmt[i + 1] = "{"
             THEN Prefixed(<<"{">>, VformatFrom(fmt, args, i + 2, next))
           ELSE IF i < Len(fmt) /\ fmt[i + 1] = "}" /\ next <= Len(args)
             THEN Prefixed(args[next], VformatFrom(fmt, args, i + 2, next + 1))
           ELSE FormatError
    ELSE IF fmt[i] = "}"
      THEN IF i < Len(fmt) /\ fmt[i + 1] = "}"
             THEN Prefixed(<<"}">>, VformatFrom(fmt, args, i + 2, next))
             ELSE FormatError
    ELSE Prefixed(<<fmt[i]>>, VformatFrom(fmt, args, i + 1, next))

vformat(fmt, args) == VformatFrom(fmt, args, 1, 1)

\* e.what() of the exception caught, and the text log_fmt puts before it
What == <<"w", "h", "a", "t">>
LogFormattingError ==
    <<"L", "o", "g", " ", "f", "o", "r", "m", "a", "t", "t", "i", "n", "g", " ",
      "e", "r", "r", "o", "r", ":", " ">>

\* formatLocation: "file -> function(): line", for a file name without
\* directories and a function name that cleanFunctionName leaves as it is
formatLocation(l) ==
    l.file \o <<" ", "-", ">", " ">> \o l.function \o <<"(", ")", ":", " ">> \o l.line

\* the banner of header, footer and notice
total_width == 40
hash_count  == 8
text_space  == total_width - (hash_count * 2)

Run(c, n) == [k \in 1..n |-> c]
Esc(code) == <<"ESC", "[">> \o code \o <<"m">>

BannerColor(fn) ==
    CASE fn = "header" -> <<"3", "2", ";", "1">>
      [] fn = "footer" -> <<"9", "4", ";", "1">>
      [] fn = "notice" -> <<"3", "8", ";", "5", ";", "2", "0", "8", ";", "1">>

Marker(fn) ==
    CASE fn = "header" -> ">"
      [] fn = "footer" -> "<"
      [] fn = "notice" -> "#"

\* only notice closes the banner with a second run of markers
Closing(fn) == IF fn = "notice" THEN Run("#", hash_count) ELSE <<>>

Banner(fn, message) ==
    IF Len(message) > text_space - 2
      THEN Esc(BannerColor(fn)) \o Run(Marker(fn), hash_count) \o <<" ">> \o message
              \o Closing(fn) \o Esc(<<"0">>)
      ELSE LET padding == (text_space - Len(message)) \div 2
           IN  Esc(BannerColor(fn)) \o Run(Marker(fn), hash_count) \o Spaces(padding)
                  \o message \o Spaces(text_space - Len(message) - padding)
                  \o Closing(fn) \o Esc(<<"0">>)

\* the level a banner function asks isLogLevelEnabled about
ProbeLevel(fn) ==
    CASE fn = "header" -> HEADER
      [] fn = "footer" -> FOOTER
      [] fn = "notice" -> NOTICE

\* the level each function hands to log_fmt
ForwardLevel(fn) ==
    CASE fn = "trace"  -> TRACE
      [] fn = "debug"  -> DEBUG
      [] fn = "info"   -> INFO
      [] fn = "warn"   -> WARN
      [] fn = "error"  -> ERROR
      [] fn = "header" -> HEADER
      [] fn = "footer" -> FOOTER
      [] fn = "notice" -> FOOTER

InFrame(t, stage) == frame[t] # NoFrame /\ frame[t].stage = stage

\* header / footer / notice up to the call of isLogLevelEnabled: the message
\* is formatted when there are arguments, outside any try block
FirstFormat(format, args) == IF args # <<>> THEN vformat(format, args) ELSE Formatted(format)

BannerCall(t, fn, format, args, location) ==
    /\ CanCall(t)
    /\ ops' = ops + 1
    /\ IF FirstFormat(format, args).ok
         THEN /\ frame' = [frame EXCEPT ![t] =
                             [fn |-> fn, stage |-> "probe", location |-> location,
                              message |-> FirstFormat(format, args).text,
                              fmt_string |-> <<>>, args |-> <<>>, what |-> <<>>]]
              /\ ret' = [ret EXCEPT ![t] = NoResult]
         ELSE /\ frame' = frame
              /\ ret' = [ret EXCEPT ![t] = Threw("format_error")]
    /\ UNCHANGED <<config, guarded, sinks, mMutex, mSharedMutex, pc, loc>>

header(t, format, args, location) == BannerCall(t, "header", format, args, location)
footer(t, format, args, location) == BannerCall(t, "footer", format, args, location)
notice(t, format, args, location) == BannerCall(t, "notice", format, args, location)

\* info / warn / error, and debug / trace "if constexpr(is_debug_build)"
LevelCall(t, fn, built, format, args, location) ==
    /\ CanCall(t)
    /\ ops' = ops + 1
    /\ ret' = [ret EXCEPT ![t] = NoResult]
    /\ IF built
         THEN frame' = [frame EXCEPT ![t] =
                          [fn |-> fn, stage |-> "log_fmt", location |-> location,
                           message |-> <<>>,
                           fmt_string |-> format, args |-> args, what |-> <<>>]]
         ELSE frame' = frame
    /\ UNCHANGED <<config, guarded, sinks, mMutex, mSharedMutex, pc, loc>>

debug(t, format, args, location) == LevelCall(t, "debug", is_debug_build, format, args, location)
trace(t, format, args, location) == LevelCall(t, "trace", is_debug_build, format, args, location)
info(t, format, args, location)  == LevelCall(t, "info", TRUE, format, args, location)
warn(t, format, args, location)  == LevelCall(t, "warn", TRUE, format, args, location)
error(t, format, args, location) == LevelCall(t, "error", TRUE, format, args, location)

\* "if (hxLogger::getLogger().isLogLevelEnabled(Level::...))": the call
Probe(t) ==
    /\ InFrame(t, "probe")
    /\ EnterLevelEnabled(t, ProbeLevel(frame[t].fn))
    /\ frame' = [frame EXCEPT ![t].stage = "probing"]
    /\ UNCHANGED ops

\* formatted_message: the banner when the level is enabled, empty otherwise;
\* it is the format string given to log_fmt, without arguments
BuildBanner(t) ==
    /\ InFrame(t, "probing")
    /\ pc[t] = "idle"
    /\ frame' = [frame EXCEPT ![t].stage = "log_fmt",
                              ![t].fmt_string = IF ret[t].val
                                                  THEN Banner(frame[t].fn, frame[t].message)
                                                  ELSE <<>>]
    /\ UNCHANGED program

\* log_fmt: "log(std::vformat(fmt_string, ...), level, formatLocation(loc))"
\* in the try block
LogFmt(t) ==
    /\ InFrame(t, "log_fmt")
    /\ LET r == vformat(frame[t].fmt_string, frame[t].args)
       IN  IF r.ok
             THEN /\ EnterLog(t, r.text, ForwardLevel(frame[t].fn),
                              formatLocation(frame[t].location))
                  /\ frame' = [frame EXCEPT ![t].stage = "logging"]
                  /\ UNCHANGED ops
             ELSE /\ frame' = [frame EXCEPT ![t].stage = "catch", ![t].what = What]
                  /\ UNCHANGED program

\* "catch(const std::exception& e)": the error is logged at Level::ERROR
CatchFormat(t) ==
    /\ InFrame(t, "catch")
    /\ EnterLog(t, LogFormattingError \o frame[t].what, ERROR,
                formatLocation(frame[t].location))
    /\ frame' = [frame EXCEPT ![t].stage = "reporting"]
    /\ UNCHANGED ops

\* log() has returned: the function returns; an exception of the first log()
\* is caught by log_fmt, one of the second leaves the function
EntryReturn(t) ==
    /\ frame[t] # NoFrame
    /\ frame[t].stage \in {"logging", "reporting"}
    /\ pc[t] = "idle"
    /\ IF frame[t].stage = "logging" /\ ret[t].thrown
         THEN frame' = [frame EXCEPT ![t].stage = "catch", ![t].what = What]
         ELSE frame' = [frame EXCEPT ![t] = NoFrame]
    /\ UNCHANGED program

\* what is recorded of a call of one of these functions: the call, the
\* settings it found, the log() calls it has made, whether a format failed
Entered(fn, format, args, location) ==
    [op |-> fn, arg |-> <<format, args, location>>, pre |-> Settings, out |-> sinks,
     calls |-> <<>>,
     failed |-> fn \in BannerFunctions /\ ~FirstFormat(format, args).ok]

Forwarded(t) ==
    IF InFrame(t, "log_fmt")
      THEN LET r == vformat(frame[t].fmt_string, frame[t].args)
           IN  IF r.ok
                 THEN [last EXCEPT !.calls = Append(@, <<r.text, ForwardLevel(frame[t].fn),
                                                         formatLocation(frame[t].location)>>)]
                 ELSE [last EXCEPT !.failed = TRUE]
      ELSE [last EXCEPT !.calls = Append(@, <<LogFormattingError \o frame[t].what, ERROR,
                                              formatLocation(frame[t].location)>>)]

Noted(lst) ==
    /\ last' = lst
    /\ UNCHANGED <<supCalls, joined>>
    /\ existed' = existed \cup Quiescent

DoLayer(t, action, lst) ==
    /\ action
    /\ Noted(lst)
    /\ Observe(t)
    /\ UNCHANGED <<arg, result, is_debug_build, once, viewer>>

EntryPoints(t) ==
    \E f \in Formats, a \in ArgLists, l \in Locations :
        \/ DoLayer(t, header(t, f, a, l), Entered("header", f, a, l))
        \/ DoLayer(t, footer(t, f, a, l), Entered("footer", f, a, l))
        \/ DoLayer(t, notice(t, f, a, l), Entered("notice", f, a, l))
        \/ DoLayer(t, debug(t, f, a, l), Entered("debug", f, a, l))
        \/ DoLayer(t, trace(t, f, a, l), Entered("trace", f, a, l))
        \/ DoLayer(t, info(t, f, a, l), Entered("info", f, a, l))
        \/ DoLayer(t, warn(t, f, a, l), Entered("warn", f, a, l))
        \/ DoLayer(t, error(t, f, a, l), Entered("error", f, a, l))

InsideEntry(t) ==
    \/ DoLayer(t, Probe(t), last)
    \/ DoLayer(t, BuildBanner(t), last)
    \/ DoLayer(t, LogFmt(t), Forwarded(t))
    \/ DoLayer(t, CatchFormat(t), Forwarded(t))
    \/ DoLayer(t, EntryReturn(t), last)

InitFmt == Started(FALSE) /\ arg = <<>> /\ is_debug_build \in BOOLEAN

NextFmt == Step(Fmt, TRUE) \/ EntryPoints(Fmt) \/ InsideEntry(Fmt)

SpecFmt == InitFmt /\ [][NextFmt]_vars

\* ------------------------------------------------------------- LogParser
\* LogParser::parse and LogParser::parseChunk. A line is what std::getline
\* delivers; "FS" is the byte 31.
FIELD_SEPARATOR == "FS"

\* "for (char c : line)" and "if (!field.empty()) fields.push_back(field);"
RECURSIVE SplitFrom(_, _, _, _)
SplitFrom(line, i, fields, field) ==
    IF i > Len(line) THEN (IF field # <<>> THEN Append(fields, field) ELSE fields)
    ELSE IF line[i] = FIELD_SEPARATOR
      THEN SplitFrom(line, i + 1, Append(fields, field), <<>>)
      ELSE SplitFrom(line, i + 1, fields, Append(field, line[i]))

Fields(line) == SplitFrom(line, 1, <<>>, <<>>)

\* the characters parse trims from the level, " \t", and those parseChunk
\* trims, " \\t": a space, a backslash and the letter t
TrimParse == {" ", "\t"}
TrimChunk == {" ", "\\", "t"}

\* "level_str.erase(0, level_str.find_first_not_of(chars));
\*  level_str.erase(level_str.find_last_not_of(chars) + 1);"
Trimmed(str, chars) ==
    LET kept == {i \in 1..Len(str) : str[i] \notin chars}
    IN  IF kept = {} THEN <<>>
        ELSE SubSeq(str, CHOOSE i \in kept : \A j \in kept : i <= j,
                         CHOOSE i \in kept : \A j \in kept : i >= j)

\* enum class LogLevel and the chain of comparisons, DEBUG being the fallback
LogLevel == {<<"D", "E", "B", "U", "G">>, <<"I", "N", "F", "O">>, <<"W", "A", "R", "N">>,
             <<"E", "R", "R", "O", "R">>, <<"F", "O", "O", "T", "E", "R">>,
             <<"H", "E", "A", "D", "E", "R">>}

LevelOf(level_str) == IF level_str \in LogLevel THEN level_str ELSE <<"D", "E", "B", "U", "G">>

\* std::regex source_re(R"((.*)\s*->\s*(.*)\(\):\s*(\d+))") under regex_match:
\* the text ends with "():", white space and digits; the first group runs up
\* to the last "->" before that, the second from the white space after it
WhiteSpace == {" ", "\t", "\n", "\r", "\f"}
DigitChars == <<"0", "1", "2", "3", "4", "5", "6", "7", "8", "9">>
IsDigit(c) == \E n \in 1..10 : DigitChars[n] = c
Dot(c)     == c \notin {"\n", "\r"}

Occurs(pat, s, i) == i + Len(pat) - 1 <= Len(s) /\ SubSeq(s, i, i + Len(pat) - 1) = pat

\* the position of the first digit of the number that ends the text after
\* position i, or 0
NumberAfter(s, i) ==
    LET starts == {d \in (i + 1)..Len(s) :
                      /\ \A k \in (i + 1)..(d - 1) : s[k] \in WhiteSpace
                      /\ \A k \in d..Len(s) : IsDigit(s[k])}
    IN  IF starts = {} THEN 0 ELSE CHOOSE d \in starts : \A e \in starts : d <= e

NoMatch == [matched |-> FALSE, file |-> <<>>, function |-> <<>>, line |-> <<>>]

regex_match(s) ==
    LET closes == {i \in 1..Len(s) : Occurs(<<"(", ")", ":">>, s, i) /\ NumberAfter(s, i + 2) # 0}
    IN  IF closes = {} THEN NoMatch
        ELSE LET close  == CHOOSE i \in closes : \A j \in closes : i >= j
                 arrows == {j \in 1..(close - 2) : Occurs(<<"-", ">">>, s, j)}
             IN  IF arrows = {} \/ \E k \in 1..(close - 1) : ~Dot(s[k]) THEN NoMatch
                 ELSE LET arrow == CHOOSE j \in arrows : \A k \in arrows : j >= k
                          named == {k \in (arrow + 2)..(close - 1) : s[k] \notin WhiteSpace}
                          from  == IF named = {} THEN close
                                   ELSE CHOOSE k \in named : \A m \in named : k <= m
                      IN  [matched  |-> TRUE,
                           file     |-> SubSeq(s, 1, arrow - 1),
                           function |-> SubSeq(s, from, close - 1),
                           line     |-> SubSeq(s, NumberAfter(s, close + 2), Len(s))]

\* std::stoi of a run of digits: its value, std::out_of_range past INT_MAX
INT_MAX == 2147483647

RECURSIVE Value(_)
Value(digits) ==
    IF digits = <<>> THEN 0
    ELSE 10 * Value(SubSeq(digits, 1, Len(digits) - 1))
           + (CHOOSE n \in 0..9 : DigitChars[n + 1] = digits[Len(digits)])

\* whether the number is past INT_MAX, told from its digits: more than ten
\* significant digits, or ten that pass 214748364 and 7
OutOfRange(digits) ==
    LET nonzero     == {i \in 1..Len(digits) : digits[i] # "0"}
        significant == IF nonzero = {} THEN <<>>
                       ELSE SubSeq(digits, CHOOSE i \in nonzero : \A j \in nonzero : i <= j,
                                   Len(digits))
    IN  \/ Len(significant) > 10
        \/ /\ Len(significant) = 10
           /\ LET high == Value(SubSeq(significant, 1, 9))
                  low  == Value(<<significant[10]>>)
              IN  high > INT_MAX \div 10 \/ (high = INT_MAX \div 10 /\ low > INT_MAX % 10)

\* what a line becomes: an entry, nothing, or an exception
NoEntry == [timestamp |-> <<>>, level |-> <<>>, message |-> <<>>, source_file |-> <<>>,
            source_function |-> <<>>, source_line |-> 0]

Unknown == <<"u", "n", "k", "n", "o", "w", "n">>

ParseLine(line, chars) ==
    LET fields == Fields(line)
    IN  IF Len(fields) < 4 THEN [kind |-> "skipped", entry |-> NoEntry]
        ELSE LET source_match == regex_match(fields[4])
                 entry == [timestamp |-> fields[1],
                           level     |-> LevelOf(Trimmed(fields[2], chars)),
                           message   |-> fields[3],
                           source_file     |-> IF source_match.matched THEN source_match.file
                                               ELSE fields[4],
                           source_function |-> IF source_match.matched
                                                 THEN source_match.function ELSE Unknown,
                           source_line     |-> IF source_match.matched
                                                 THEN Value(source_match.line) ELSE 0]
             IN  IF source_match.matched /\ OutOfRange(source_match.line)
                   THEN [kind |-> "thrown", entry |-> NoEntry]
                   ELSE [kind |-> "entry", entry |-> entry]

\* the loop over the lines, left at the first exception
RECURSIVE ParseLines(_, _)
ParseLines(lines, chars) ==
    IF lines = <<>> THEN [thrown |-> FALSE, entries |-> <<>>]
    ELSE LET first == ParseLine(Head(lines), chars)
         IN  IF first.kind = "thrown" THEN [thrown |-> TRUE, entries |-> <<>>]
             ELSE LET rest == ParseLines(Tail(lines), chars)
                  IN  [thrown  |-> rest.thrown,
                       entries |-> IF rest.thrown THEN <<>>
                                   ELSE (IF first.kind = "entry" THEN <<first.entry>> ELSE <<>>)
                                           \o rest.entries]

\* parse(file_path): no entries when the file does not open
parse(opened, file) ==
    IF opened THEN ParseLines(file, TrimParse) ELSE [thrown |-> FALSE, entries |-> <<>>]

\* parseChunk(lines, entries, entries_mutex) when "if (stop_requested) break;"
\* lets the first "seen" lines through: the entries of the chunk are appended
\* in one insert, which an exception does not reach
parseChunk(lines, entries, seen) ==
    LET chunk == ParseLines(SubSeq(lines, 1, seen), TrimChunk)
    IN  [thrown  |-> chunk.thrown,
         entries |-> IF chunk.thrown THEN entries ELSE entries \o chunk.entries]

\* the lines of the files: fields joined by the separator
RECURSIVE Joined(_)
Joined(fields) ==
    IF fields = <<>> THEN <<>>
    ELSE IF Len(fields) = 1 THEN fields[1]
    ELSE fields[1] \o <<FIELD_SEPARATOR>> \o Joined(Tail(fields))

Stamp   == <<"t">>
Text    == <<"m">>
Site(n) == <<"a", " ", "-", ">", " ", "f", "(", ")", ":", " ">> \o n

ParserLines ==
    {Joined(<<Stamp, <<"I", "N", "F", "O">>, Text, Site(<<"7">>)>>),
     Joined(<<Stamp, <<" ", "W", "A", "R", "N">>, Text, <<"a">>>>),
     Joined(<<Stamp, <<"\t", "E", "R", "R", "O", "R">>, Text, Site(<<"7">>)>>),
     Joined(<<Stamp, <<"N", "O", "T", "I", "C", "E">>, Text, <<"a">>, <<"b">>>>),
     Joined(<<Stamp, <<"I", "N", "F", "O">>, Text>>),
     Joined(<<Stamp, <<"I", "N", "F", "O">>, Text, <<>>>>),
     <<>>,
     <<"[", "t", "]", "[", "I", "N", "F", "O", "]", ":", " ", "m", "|", " ", "a">>,
     Joined(<<Stamp, <<"I", "N", "F", "O">>, Text, Site(<<"2", "1", "4", "7", "4", "8", "3", "6", "4", "7">>)>>),
     Joined(<<Stamp, <<"I", "N", "F", "O">>, Text, Site(<<"2", "1", "4", "7", "4", "8", "3", "6", "4", "8">>)>>),
     <<FIELD_SEPARATOR, FIELD_SEPARATOR, FIELD_SEPARATOR, FIELD_SEPARATOR>>}

MaxLines == 2
Files == UNION {[1..n -> ParserLines] : n \in 0..MaxLines}

\* an entry the shared vector may hold before a chunk is appended
Earlier == [NoEntry EXCEPT !.timestamp = <<"e">>]

InitParse == Started(FALSE) /\ arg \in Files /\ is_debug_build = FALSE

ApplyParse ==
    /\ result = NoCall
    /\ \E opened \in BOOLEAN :
          result' = [op |-> "parse", opened |-> opened, seen |-> Len(arg), before |-> <<>>,
                     val |-> parse(opened, arg)]
    /\ UNCHANGED <<program, history, arg, layer>>

ApplyParseChunk ==
    /\ result = NoCall
    /\ \E seen \in 0..Len(arg), entries \in {<<>>, <<Earlier>>} :
          result' = [op |-> "parseChunk", opened |-> TRUE, seen |-> seen, before |-> entries,
                     val |-> parseChunk(arg, entries, seen)]
    /\ UNCHANGED <<program, history, arg, layer>>

NextParse ==
    \/ ApplyParse
    \/ ApplyParseChunk

SpecParse == InitParse /\ [][NextParse]_vars

\* ------------------------------------------------------ viewer and worker
\* The Open button of the viewer (src/src/main.cpp), LogParser::parseAsync
\* with its worker thread and LogParser::stopParsing. One thread runs the
\* screen; every access of a worker to an atomic or to the vector is a step.
FileA == <<Joined(<<Stamp, <<"I", "N", "F", "O">>, Text, Site(<<"7">>)>>),
           Joined(<<Stamp, <<" ", "W", "A", "R", "N">>, Text, <<"a">>>>),
           Joined(<<Stamp, <<"\t", "E", "R", "R", "O", "R">>, Text, Site(<<"7">>)>>)>>
FileB == <<Joined(<<Stamp, <<"N", "O", "T", "I", "C", "E">>, Text, <<"a">>, <<"b">>>>)>>
FileC == <<Joined(<<Stamp, <<"I", "N", "F", "O">>, Text,
                    Site(<<"2", "1", "4", "7", "4", "8", "3", "6", "4", "8">>)>>)>>

\* input_file_path: three files that open, and a path that does not
ViewerPaths == {"A", "B", "C", "missing"}
\* "given" is the path of the file whose lines the run was given
LinesOf(path) == CASE path = "A" -> FileA [] path = "B" -> FileB [] path = "C" -> FileC
                   [] path = "given" -> arg
                   [] OTHER -> <<>>
Openable(path) == path # "missing"

\* everything but the viewer's own state
Outside == <<config, guarded, sinks, mMutex, mSharedMutex, pc, loc, ret,
             history, arg, result, frame, is_debug_build, once>>

Running == ~terminated

\* Open: "std::lock_guard<std::mutex> lock(log_entries_mutex);"
OpenLock(path) ==
    /\ Running
    /\ ui = UiIdle
    /\ ops < MaxViewOps
    /\ log_entries_mutex = {}
    /\ ops' = ops + 1
    /\ log_entries_mutex' = {UI}
    /\ ui' = [pc |-> "clear", op |-> "Open", file |-> path]
    /\ UNCHANGED <<parsing_active, stop_requested, parsing_thread, worker, log_entries,
                   status_message, quiet, terminated>>

\* "log_entries.clear();" and the end of the block; parseAsync is called
OpenClear ==
    /\ Running
    /\ ui.pc = "clear"
    /\ log_entries' = <<>>
    /\ log_entries_mutex' = {}
    /\ ui' = [ui EXCEPT !.pc = "stop"]
    /\ UNCHANGED <<parsing_active, stop_requested, parsing_thread, worker,
                   status_message, quiet, terminated, ops>>

\* stopParsing() called by the program
stopParsing ==
    /\ Running
    /\ ui = UiIdle
    /\ ops < MaxViewOps
    /\ ops' = ops + 1
    /\ ui' = [pc |-> "stop", op |-> "stopParsing", file |-> "none"]
    /\ UNCHANGED <<parsing_active, stop_requested, parsing_thread, worker, log_entries,
                   log_entries_mutex, status_message, quiet, terminated>>

\* the workers that have started and not reached their last test of
\* stop_requested
BeforeLastTest == {"start", "reset", "open", "getline", "chunk", "chunk_lock",
                   "chunk_insert", "progress", "rest", "final"}

\* stopParsing: "stop_requested = true;"
StoreStop ==
    /\ Running
    /\ ui.pc = "stop"
    /\ stop_requested' = TRUE
    /\ worker' = [w \in WorkerIds |->
                    IF worker[w].pc \in BeforeLastTest
                      THEN [worker[w] EXCEPT !.asked = TRUE] ELSE worker[w]]
    /\ ui' = [ui EXCEPT !.pc = "join"]
    /\ UNCHANGED <<parsing_active, parsing_thread, log_entries, log_entries_mutex,
                   status_message, quiet, terminated, ops>>

\* what follows stopParsing: the thread is started in parseAsync, the
\* program goes on after a call of its own
AfterJoin == IF ui.op = "Open" THEN [ui EXCEPT !.pc = "spawn"] ELSE UiIdle

\* a stopParsing that lets go of the thread instead of waiting for its end
JoinDetached ==
    /\ Running
    /\ ui.pc = "join"
    /\ parsing_thread' = 0
    /\ quiet' = TRUE
    /\ ui' = AfterJoin
    /\ UNCHANGED <<parsing_active, stop_requested, worker, log_entries, log_entries_mutex,
                   status_message, terminated, ops>>

\* "if (parsing_thread.joinable()) parsing_thread.join();": join returns
\* when the thread function has returned
JoinWorker ==
    /\ Running
    /\ ui.pc = "join"
    /\ parsing_thread # 0 => worker[parsing_thread].pc = "done"
    /\ worker' = IF parsing_thread # 0
                   THEN [worker EXCEPT ![parsing_thread].pc = "joined"] ELSE worker
    /\ parsing_thread' = 0
    /\ quiet' = TRUE
    /\ ui' = AfterJoin
    /\ UNCHANGED <<parsing_active, stop_requested, log_entries, log_entries_mutex,
                   status_message, terminated, ops>>

\* "parsing_thread = std::thread([...]() { ... });" and the rest of the
\* callback: the new worker is the first that has not started
StartWorker ==
    /\ Running
    /\ ui.pc = "spawn"
    /\ LET w == CHOOSE v \in WorkerIds :
                   worker[v].pc = "unborn" /\ \A u \in 1..(v - 1) : worker[u].pc # "unborn"
       IN  /\ worker' = [worker EXCEPT ![w] = [NoWorker EXCEPT !.pc = "start", !.file = ui.file]]
           /\ parsing_thread' = w
    /\ quiet' = FALSE
    /\ ui' = UiIdle
    /\ UNCHANGED <<parsing_active, stop_requested, log_entries, log_entries_mutex,
                   status_message, terminated, ops>>

\* a renderer: "std::lock_guard<std::mutex> lock(log_entries_mutex);"
RenderLock ==
    /\ Running
    /\ ui = UiIdle
    /\ log_entries_mutex = {}
    /\ log_entries_mutex' = {UI}
    /\ ui' = [pc |-> "copy", op |-> "Render", file |-> "none"]
    /\ UNCHANGED <<parsing_active, stop_requested, parsing_thread, worker, log_entries,
                   status_message, quiet, terminated, ops>>

\* "local_entries = log_entries;" and the end of the block
RenderCopy ==
    /\ Running
    /\ ui.pc = "copy"
    /\ log_entries_mutex' = {}
    /\ ui' = UiIdle
    /\ UNCHANGED <<parsing_active, stop_requested, parsing_thread, worker, log_entries,
                   status_message, quiet, terminated, ops>>

\* ---- the worker: the lambda of parseAsync
At(w, label) == Running /\ worker[w].pc = label

\* progress_callback(status): "status_message = progress;"
Reports(w, status, label) ==
    /\ worker' = [worker EXCEPT ![w].report = Append(@, status), ![w].pc = label]
    /\ status_message' = status

\* "parsing_active = true;"
Activate(w) ==
    /\ At(w, "start")
    /\ parsing_active' = TRUE
    /\ worker' = [worker EXCEPT ![w].pc = "reset"]
    /\ UNCHANGED <<stop_requested, parsing_thread, log_entries, log_entries_mutex,
                   status_message, ui, quiet, terminated, ops>>

\* a worker that leaves the request of the caller as it finds it
KeepStop(w) ==
    /\ At(w, "reset")
    /\ worker' = [worker EXCEPT ![w].pc = "open"]
    /\ UNCHANGED <<parsing_active, stop_requested, parsing_thread, log_entries,
                   log_entries_mutex, status_message, ui, quiet, terminated, ops>>

\* "stop_requested = false;"
ResetStop(w) ==
    /\ At(w, "reset")
    /\ stop_requested' = FALSE
    /\ worker' = [worker EXCEPT ![w].pc = "open"]
    /\ UNCHANGED <<parsing_active, parsing_thread, log_entries, log_entries_mutex,
                   status_message, ui, quiet, terminated, ops>>

\* "std::ifstream file(file_path); if (!file.is_open()) { ... return; }" and
\* "progress_callback("Starting parse... 0%");"
OpenFile(w) ==
    /\ At(w, "open")
    /\ IF Openable(worker[w].file)
         THEN Reports(w, Status("Starting parse", 0, 0), "getline")
         ELSE Reports(w, Status("Error: Could not open file", 0, 0), "deactivate")
    /\ UNCHANGED <<parsing_active, stop_requested, parsing_thread, log_entries,
                   log_entries_mutex, ui, quiet, terminated, ops>>

\* "while (std::getline(file, line) && !stop_requested)" with the body up to
\* "if (line_batch.size() >= BATCH_SIZE)"
GetLine(w) ==
    /\ At(w, "getline")
    /\ LET me    == worker[w]
           lines == LinesOf(me.file)
       IN  IF me.pos = Len(lines)
             THEN worker' = [worker EXCEPT ![w].pc = "rest"]
           ELSE IF stop_requested
             THEN worker' = [worker EXCEPT ![w].pc = "rest", ![w].pos = @ + 1]
           ELSE worker' = [worker EXCEPT
                             ![w].pos = @ + 1,
                             ![w].line_batch = Append(@, lines[me.pos + 1]),
                             ![w].total_lines = @ + 1,
                             ![w].pc = IF Len(me.line_batch) + 1 >= BATCH_SIZE
                                         THEN "chunk" ELSE "getline",
                             ![w].back = "progress"]
    /\ UNCHANGED <<parsing_active, stop_requested, parsing_thread, log_entries,
                   log_entries_mutex, status_message, ui, quiet, terminated, ops>>

\* parseChunk: "for (const auto& line : lines) { if (stop_requested) break;"
\* and the body of the loop for one line; an exception of std::stoi leaves
\* the thread function, which ends the program
ChunkLine(w) ==
    /\ At(w, "chunk")
    /\ LET me == worker[w]
       IN  IF me.k = Len(me.line_batch) \/ stop_requested
             THEN /\ worker' = [worker EXCEPT ![w].pc = "chunk_lock"]
                  /\ UNCHANGED terminated
           ELSE LET parsed == ParseLine(me.line_batch[me.k + 1], TrimChunk)
                IN  /\ worker' = [worker EXCEPT
                                    ![w].k = @ + 1,
                                    ![w].chunk_entries =
                                        IF parsed.kind = "entry" THEN Append(@, parsed.entry)
                                        ELSE @]
                    /\ terminated' = (parsed.kind = "thrown")
    /\ UNCHANGED <<parsing_active, stop_requested, parsing_thread, log_entries,
                   log_entries_mutex, status_message, ui, quiet, ops>>

\* parseChunk: "std::lock_guard<std::mutex> lock(entries_mutex);"
ChunkLock(w) ==
    /\ At(w, "chunk_lock")
    /\ log_entries_mutex = {}
    /\ log_entries_mutex' = {w}
    /\ worker' = [worker EXCEPT ![w].pc = "chunk_insert"]
    /\ UNCHANGED <<parsing_active, stop_requested, parsing_thread, log_entries,
                   status_message, ui, quiet, terminated, ops>>

\* "entries.insert(entries.end(), chunk_entries.begin(), chunk_entries.end());"
\* and the return of parseChunk
ChunkInsert(w) ==
    /\ At(w, "chunk_insert")
    /\ log_entries' = log_entries \o worker[w].chunk_entries
    /\ log_entries_mutex' = {}
    /\ worker' = [worker EXCEPT ![w].pc = worker[w].back, ![w].chunk_entries = <<>>,
                                ![w].k = 0]
    /\ UNCHANGED <<parsing_active, stop_requested, parsing_thread, status_message,
                   ui, quiet, terminated, ops>>

\* "progress_callback(status); line_batch.clear();"
Progress(w) ==
    /\ At(w, "progress")
    /\ worker' = [worker EXCEPT
                    ![w].report = Append(@, Status("Parsing", 0, worker[w].total_lines)),
                    ![w].line_batch = <<>>,
                    ![w].pc = "getline"]
    /\ status_message' = Status("Parsing", 0, worker[w].total_lines)
    /\ UNCHANGED <<parsing_active, stop_requested, parsing_thread, log_entries,
                   log_entries_mutex, ui, quiet, terminated, ops>>

\* "if (!line_batch.empty() && !stop_requested)"
Rest(w) ==
    /\ At(w, "rest")
    /\ worker' = [worker EXCEPT
                    ![w].pc = IF worker[w].line_batch # <<>> /\ ~stop_requested
                                THEN "chunk" ELSE "final",
                    ![w].back = "final"]
    /\ UNCHANGED <<parsing_active, stop_requested, parsing_thread, log_entries,
                   log_entries_mutex, status_message, ui, quiet, terminated, ops>>

\* "if (stop_requested) { progress_callback("Parsing cancelled"); } else {"
Final(w) ==
    /\ At(w, "final")
    /\ IF stop_requested
         THEN Reports(w, Status("Parsing cancelled", 0, 0), "deactivate")
         ELSE /\ worker' = [worker EXCEPT ![w].pc = "count_lock"]
              /\ UNCHANGED status_message
    /\ UNCHANGED <<parsing_active, stop_requested, parsing_thread, log_entries,
                   log_entries_mutex, ui, quiet, terminated, ops>>

\* "std::lock_guard<std::mutex> lock(entries_mutex);"
CountLock(w) ==
    /\ At(w, "count_lock")
    /\ log_entries_mutex = {}
    /\ log_entries_mutex' = {w}
    /\ worker' = [worker EXCEPT ![w].pc = "count"]
    /\ UNCHANGED <<parsing_active, stop_requested, parsing_thread, log_entries,
                   status_message, ui, quiet, terminated, ops>>

\* "total_matched = entries.size();", the end of the block and
\* "progress_callback("Complete: ...");"
Count(w) ==
    /\ At(w, "count")
    /\ log_entries_mutex' = {}
    /\ Reports(w, Status("Complete", Len(log_entries), worker[w].total_lines), "deactivate")
    /\ UNCHANGED <<parsing_active, stop_requested, parsing_thread, log_entries,
                   ui, quiet, terminated, ops>>

\* "parsing_active = false;" and the end of the thread function
Deactivate(w) ==
    /\ At(w, "deactivate")
    /\ parsing_active' = FALSE
    /\ worker' = [worker EXCEPT ![w].pc = "done"]
    /\ UNCHANGED <<stop_requested, parsing_thread, log_entries, log_entries_mutex,
                   status_message, ui, quiet, terminated, ops>>

DoView(action) == action /\ UNCHANGED Outside

ScreenThread ==
    \/ \E path \in ViewerPaths : DoView(OpenLock(path))
    \/ DoView(OpenClear)
    \/ DoView(stopParsing)
    \/ DoView(StoreStop)
    \/ DoView(JoinWorker)
    \/ DoView(StartWorker)
    \/ DoView(RenderLock)
    \/ DoView(RenderCopy)

WorkerThread(w) ==
    \/ DoView(Activate(w))
    \/ DoView(ResetStop(w))
    \/ DoView(OpenFile(w))
    \/ DoView(GetLine(w))
    \/ DoView(ChunkLine(w))
    \/ DoView(ChunkLock(w))
    \/ DoView(ChunkInsert(w))
    \/ DoView(Progress(w))
    \/ DoView(Rest(w))
    \/ DoView(Final(w))
    \/ DoView(CountLock(w))
    \/ DoView(Count(w))
    \/ DoView(Deactivate(w))

InitViewer == Started(FALSE) /\ arg = <<>> /\ is_debug_build = FALSE

NextViewer == ScreenThread \/ \E w \in WorkerIds : WorkerThread(w)

SpecViewer == InitViewer /\ [][NextViewer]_vars

\* one Open of a file of any lines, and no other call: the asynchronous
\* parse of the file beside what parse() returns for it
InitAsync == Started(FALSE) /\ arg \in Files /\ is_debug_build = FALSE

OpenGiven == ops = 0 /\ OpenLock("given")

NextAsync ==
    \/ DoView(OpenGiven)
    \/ DoView(OpenClear)
    \/ DoView(StoreStop)
    \/ DoView(JoinWorker)
    \/ DoView(StartWorker)
    \/ DoView(RenderLock)
    \/ DoView(RenderCopy)
    \/ WorkerThread(1)

SpecAsync == InitAsync /\ [][NextAsync]_vars

\* ---------------------------------------------------- text-utility runs
MaxTextLen == 4
Alphabet == {"a", "b", "."}

Texts == UNION {[1..n -> Alphabet] : n \in 0..MaxTextLen}

\* texts with escape sequences, whole, unterminated and nested
MaxAnsiLen == 6
AnsiAlphabet == {"ESC", "[", "m", "x"}
AnsiTexts == UNION {[1..n -> AnsiAlphabet] : n \in 0..MaxAnsiLen}

Levels == {TRACE, DEBUG, INFO, WARN, ERROR, HEADER, FOOTER, NOTICE}

InitText == Started(FALSE) /\ arg \in Texts \cup AnsiTexts /\ is_debug_build = FALSE

ApplyExtractUnitName ==
    /\ result = NoCall
    /\ result' = [op |-> "extractUnitName", val |-> extractUnitName(arg)]
    /\ UNCHANGED <<program, history, arg, layer>>

ApplyStripAnsiColors ==
    /\ result = NoCall
    /\ result' = [op |-> "stripAnsiColors", val |-> stripAnsiColors(arg)]
    /\ UNCHANGED <<program, history, arg, layer>>

\* warnType(level, override_color) with the value of mIsColor it finds
ApplyWarnType ==
    /\ result = NoCall
    /\ \E level \in Levels, override_color \in BOOLEAN, isColor \in BOOLEAN :
          result' = [op |-> "warnType", level |-> level, override_color |-> override_color,
                     isColor |-> isColor, val |-> warnType(level, override_color, isColor)]
    /\ UNCHANGED <<program, history, arg, layer>>

\* tokenizeLineLength with one value of mMessageWidth throughout: the while
\* loop over one string, with a test that lets a string of exactly the width
\* through in the first variant
RECURSIVE WrapLonger(_, _)
WrapLonger(str, width) ==
    IF Len(str) > width
      THEN <<SubSeq(str, 1, width)>> \o WrapLonger(SubSeq(str, width + 1, Len(str)), width)
      ELSE <<str>>

RECURSIVE WrapString(_, _)
WrapString(str, width) ==
    IF Len(str) >= width
      THEN <<SubSeq(str, 1, width)>> \o WrapString(SubSeq(str, width + 1, Len(str)), width)
      ELSE <<str>>

RECURSIVE tokenizeLineLength(_, _)
tokenizeLineLength(strings, width) ==
    IF strings = <<>> THEN <<>>
    ELSE WrapString(Head(strings), width) \o tokenizeLineLength(Tail(strings), width)

WrapWidths == {1, 2, 3}

\* the text alone, followed by a second string, or after one
StringLists(text) == {<<text>>, <<text, <<"b">>>>, <<<<"a", "a">>, text>>}

ApplyTokenizeLineLength ==
    /\ result = NoCall
    /\ \E strings \in StringLists(arg), width \in WrapWidths :
          result' = [op |-> "tokenizeLineLength", strings |-> strings, width |-> width,
                     val |-> tokenizeLineLength(strings, width)]
    /\ UNCHANGED <<program, history, arg, layer>>

\* the banner string header, footer and notice build from the formatted
\* message: the text, alone or after a run that brings its length up to and
\* past text_space
BannerPads == {0, 17, 19, 20}

ApplyBanner ==
    /\ result = NoCall
    /\ \E fn \in BannerFunctions, pad \in BannerPads :
          LET message == Run("x", pad) \o arg
          IN  result' = [op |-> "banner", fn |-> fn, message |-> message,
                         val |-> Banner(fn, message)]
    /\ UNCHANGED <<program, history, arg, layer>>

NextText ==
    \/ ApplyExtractUnitName
    \/ ApplyStripAnsiColors
    \/ ApplyWarnType
    \/ ApplyTokenizeLineLength
    \/ ApplyBanner

SpecText == InitText /\ [][NextText]_vars

\* =================================================================== claims
LogPositions == {"log_logging", "log_level", "log_file", "log_console", "log_unit",
                 "snap_file", "snap_color", "snap_date", "tok_test", "tok_head", "tok_tail",
                 "log_tag", "con_width", "con_lock", "con_flush", "file_width", "file_lock",
                 "file_flush", "ban_tag", "ban_test", "ban_pad", "ban_fwidth"}

\* up to the suppression test of log()
FilterPositions == {"log_logging", "log_level", "log_file", "log_console", "log_unit"}

\* a log() call that has left its filter-and-snapshot block and goes on
PastSnapshot(t) == pc[t] \in LogPositions \ SnapshotSection

\* C1: a log() call writes to a sink only if, at some moment of its locked
\* check, mIsLogging, the level bit of mSetLevel and one of mLogFile /
\* mLogConsole were all true; a call that ends in the locked block has written
\* nothing and changed no logger state.
C1_FilterBeforeWrite ==
    [][\A t \in Callers :
          /\ aux'[t].wrote > aux[t].wrote => aux[t].okSeen
          /\ (pc[t] \in SnapshotSection /\ pc'[t] = "idle")
                => (aux[t].wrote = 0 /\ UNCHANGED <<config, guarded, sinks>>)]_vars

\* C2: a log() call that starts for a unit which a completed suppressUnit call
\* names, with no unsuppressUnit call for it since, writes nothing; a call is
\* dropped by the suppression test only then, so other units and unsuppressed
\* units go on to their output.
C2_Suppression ==
    [][\A t \in Callers :
          /\ aux'[t].sup => (aux'[t].wrote = 0 /\ pc'[t] \in FilterPositions)
          /\ (pc[t] = "log_unit" /\ pc'[t] = "idle") => aux[t].sup
          /\ (pc[t] = "log_unit" /\ pc'[t] # pc[t] /\ ~aux[t].sup) => pc'[t] = "snap_file"]_vars

\* a call for a suppressed unit has passed the level filter and is about to be
\* dropped, while the other unit is not suppressed
C2_Witness ==
    \E t \in Callers :
        /\ pc[t] = "log_unit"
        /\ aux[t].sup
        /\ extractUnitName(loc[t].line_info) = <<"a">>
        /\ <<"a", "b">> \notin m_suppressedUnits

\* C3: the unit name is the prefix before the first '.' of the descriptor, or
\* the whole descriptor when it holds no '.'.
C3_UnitName ==
    result.op = "extractUnitName" =>
        IF \E k \in 1..Len(arg) : arg[k] = "."
          THEN \E k \in 1..Len(arg) :
                  /\ arg[k] = "."
                  /\ \A j \in 1..(k - 1) : arg[j] # "."
                  /\ result.val = SubSeq(arg, 1, k - 1)
          ELSE result.val = arg

C3_Witness ==
    /\ result.op = "extractUnitName"
    /\ arg = <<"a", ".", "b", ".">>
    /\ result.val = <<"a">>

\* a sink holds complete lines: text and newline alternate
NewLine == <<"\n">>

CompleteLines(content) ==
    \A k \in 1..Len(content) : (content[k] = NewLine) <=> (k % 2 = 0)

\* C4: every sink is a sequence of complete lines, but for the line whose text
\* the present owner of mMutex has written and whose newline it is about to
\* write: no text of another caller gets between a text and its newline.
C4_WholeLines ==
    /\ \A s \in Streams :
          /\ CompleteLines(consoleOut[s])
          /\ Len(consoleOut[s]) % 2 = 1
                => \E t \in Callers : pc[t] = "con_flush" /\ mMutex = {t} /\ mOlogStream = s
    /\ \A p \in Paths :
          /\ CompleteLines(fileOut[p])
          /\ Len(fileOut[p]) % 2 = 1
                => \E t \in Callers : pc[t] = "file_flush" /\ mMutex = {t} /\ mFlogStream.path = p

\* one caller is between the text and the newline of its line while another
\* one waits to write its own line
C4_Witness ==
    \E t, u \in Callers :
        /\ t # u
        /\ pc[t] = "con_flush"
        /\ pc[u] = "con_lock"
        /\ Len(consoleOut[mOlogStream]) >= 3

\* C5: the values one log() call acts on are those of one configuration that
\* existed between two mutator calls.
C5_OneConfiguration ==
    \A t \in Callers :
        PastSnapshot(t) =>
            <<TRUE, loc[t].seen_level, loc[t].log_to_console, loc[t].seen_file,
              loc[t].is_color, loc[t].is_date_time>> \in existed

\* C6: no configuration write happens while a caller is inside the
\* filter-and-snapshot block of log().
C6_MutatorsLocked ==
    [][(config' # config \/ guarded' # guarded)
          => \A t \in Callers : pc[t] \notin SnapshotSection]_vars

\* C7: a probe answers for the mask it loads, and no write of the mask
\* happens while a probe holds the shared lock.
C7_ProbeExcludesWrites ==
    [][/\ mSetLevel' # mSetLevel => mSharedMutex = {}
       /\ \A t \in Callers :
             (pc[t] = "ile_load" /\ pc'[t] = "idle")
                => ret'[t] = Returned(has_level(mSetLevel, loc[t].level))]_vars

\* the sequential caller is between two calls, the last of which was op
After(op) == pc[Main] = "idle" /\ last.op = op

\* C8: turnDebugOn on an enabled logger changes nothing; on a disabled logger
\* it enables it with the mask given.
C8_EnableIdempotent ==
    After("turnDebugOn") =>
        /\ mIsLogging
        /\ IF last.pre.mIsLogging THEN Settings = last.pre ELSE mSetLevel = last.arg

\* the second of two enables, with another mask, has left the first mask
C8_Witness ==
    /\ After("turnDebugOn")
    /\ last.pre.mIsLogging
    /\ last.arg # mSetLevel
    /\ mSetLevel = INFO

\* C9: changeDebugFlags enables the logger and installs the mask given, from
\* every prior state.
C9_ChangeFlags ==
    After("changeDebugFlags") => (mIsLogging /\ mSetLevel = last.arg)

C9_Witness ==
    /\ After("changeDebugFlags")
    /\ last.pre.mIsLogging
    /\ last.pre.mSetLevel # last.arg
    /\ mSetLevel = last.arg

\* C10: turnDebugOff clears mIsLogging and leaves every other setting.
C10_DisableFrame ==
    After("turnDebugOff") => Settings = [last.pre EXCEPT !.mIsLogging = FALSE]

C10_Witness ==
    /\ After("turnDebugOff")
    /\ last.pre.mIsLogging
    /\ ~mIsLogging
    /\ mLogConsole
    /\ mSetLevel = INFO
    /\ m_suppressedUnits # {}

\* C11: mMessageWidth is always in 1..512; setMessageWidth(n) stores n when
\* 1 <= n <= 512 and 80 otherwise; no other call changes it.
C11_WidthInRange ==
    /\ mMessageWidth \in 1..512
    /\ After("setMessageWidth") =>
          mMessageWidth = IF last.arg \in 1..512 THEN last.arg ELSE 80
    /\ last.op \notin {"none", "setMessageWidth"} => mMessageWidth = last.pre.mMessageWidth

\* a width out of range has replaced a narrow width by the default
C11_Witness ==
    /\ After("setMessageWidth")
    /\ last.arg = 513
    /\ last.pre.mMessageWidth = 2
    /\ mMessageWidth = 80

\* the open of the last configureLogFile call succeeded: the stream is on the
\* path asked for, with its state cleared
OpenSucceeded == mFlogStream.path = last.arg /\ ~mFlogStream.fail

\* the positions of log() that build and write a file line
FilePositions == {"file_width", "file_lock", "file_flush", "ban_fwidth"}

\* the last call was a log() call that its filter and the suppression test let through
LogPasses ==
    /\ last.op = "log"
    /\ last.pre.mIsLogging
    /\ has_level(last.pre.mSetLevel, last.arg[2])
    /\ (last.pre.mLogFile \/ last.pre.mLogConsole)
    /\ extractUnitName(last.arg[3]) \notin last.pre.m_suppressedUnits

\* C12: configureLogFile returns true exactly when the open of the path
\* succeeded and leaves mLogFile at that value; after a failed open with no
\* file open before, it has returned false without an error, mLogFile is false,
\* and a log() call that finds no file open writes to no file.
C12_OpenResult ==
    /\ After("configureLogFile") =>
          /\ ret[Main] = Returned(OpenSucceeded)
          /\ mLogFile = OpenSucceeded
          /\ (~OpenSucceeded /\ ~is_open(last.pre.mFlogStream)) =>
                (ret[Main] = Returned(FALSE) /\ ~mLogFile)
    /\ (After("log") /\ ~is_open(last.pre.mFlogStream)) =>
          (fileOut = last.out[2] /\ ~ret[Main].thrown)

\* C13: mLogFile is true only if the file stream is open.
C13_FileEnabledOnlyIfOpen == mLogFile => is_open(mFlogStream)

\* C14: a configureLogFile call that returns true has made its path the file
\* sink, also when another file was open before; a later log() call that is to
\* write to the file writes to that sink, and to no other file.
C14_ReplaceSink ==
    /\ (After("configureLogFile") /\ ret[Main] = Returned(TRUE)) =>
          mFlogStream = [path |-> last.arg, fail |-> FALSE]
    /\ (After("log") /\ LogPasses /\ last.pre.mLogFile /\ is_open(last.pre.mFlogStream)) =>
          /\ fileOut[mFlogStream.path] # last.out[2][mFlogStream.path]
          /\ \A p \in Paths \ {mFlogStream.path} : fileOut[p] = last.out[2][p]

\* C15: with mLogFile set and no file open, a log() call that passes the filter
\* never comes to a file write, ends without an error, leaves every file as it
\* was, and has written to the console when mLogConsole was set.
C15_ClosedSinkSkipped ==
    /\ (pc[Main] \in FilePositions) => is_open(mFlogStream)
    /\ (After("log") /\ LogPasses /\ last.pre.mLogFile /\ ~is_open(last.pre.mFlogStream)) =>
          /\ fileOut = last.out[2]
          /\ ~ret[Main].thrown
          /\ last.pre.mLogConsole =>
                Len(consoleOut[mOlogStream]) > Len(last.out[1][mOlogStream])

\* the file switch was set by hand, no file is open, and the call has written
\* its line to the console
C15_Witness ==
    /\ After("log")
    /\ LogPasses
    /\ last.pre.mLogFile
    /\ ~is_open(last.pre.mFlogStream)
    /\ last.pre.mLogConsole
    /\ Len(consoleOut[mOlogStream]) = 2

\* ---- what a log() call of the sequential runs was given and found
Message  == last.arg[1]
Severity == last.arg[2]
CallSite == last.arg[3]
Width    == last.pre.mMessageWidth

NewLineFree(text) == \A k \in 1..Len(text) : text[k] # "\n"

\* the sinks the call had: the console switch; the file switch with an open
\* stream in good state
ConsoleOn == last.pre.mLogConsole
FileOn    == last.pre.mLogFile /\ is_open(last.pre.mFlogStream) /\ ~last.pre.mFlogStream.fail

\* the lines a sink has received since the call started
LinesSince(old, new) == [j \in 1..((Len(new) - Len(old)) \div 2) |-> new[Len(old) + 2 * j - 1]]
ConsoleLines == LinesSince(last.out[1][mOlogStream], consoleOut[mOlogStream])
FileLines    == LinesSince(last.out[2][mFlogStream.path], fileOut[mFlogStream.path])

\* the tags of the call's console and file lines
ConsoleTagOf == warnType(Severity, ~last.pre.mIsColor, TRUE)
FileTagOf    == warnType(Severity, TRUE, FALSE)

\* slice j (0-based) of the message at the width of the call, and the line
\* that carries it: the slice with spaces up to the width
Slice(j) ==
    SubSeq(Message, j * Width + 1,
           IF (j + 1) * Width < Len(Message) THEN (j + 1) * Width ELSE Len(Message))

SliceLine(j, tag) ==
    FormatLine(timestamp(last.pre.mIsDateTime), tag,
               IF j = 0 THEN <<":", " ">> ELSE <<">", " ">>,
               Slice(j) \o Spaces(Width - Len(Slice(j))), CallSite)

\* a normal-severity call for a newline-free message of length k * Width + r
\* with 0 < r < Width
Wraps ==
    /\ last.op = "log"
    /\ ~IsBanner(Severity)
    /\ NewLineFree(Message)
    /\ Len(Message) % Width # 0

\* C16: such a call cuts the message into k + 1 segments; the line it builds
\* for segment j carries slice j of the message, with ": " on line 0 and "> "
\* on the later ones; each sink it has receives exactly these k + 1 lines.
C16_Wrapping ==
    Wraps =>
      LET k == Len(Message) \div Width
      IN  /\ pc[Main] = "log_tag" => Len(loc[Main].tokens) = k + 1
          /\ pc[Main] = "con_lock" =>
                (loc[Main].i <= k /\ loc[Main].line = SliceLine(loc[Main].i, ConsoleTagOf))
          /\ pc[Main] = "file_lock" =>
                (loc[Main].i <= k /\ loc[Main].line = SliceLine(loc[Main].i, FileTagOf))
          /\ (After("log") /\ LogPasses /\ ConsoleOn) =>
                ConsoleLines = [j \in 1..(k + 1) |-> SliceLine(j - 1, ConsoleTagOf)]
          /\ (After("log") /\ LogPasses /\ FileOn) =>
                FileLines = [j \in 1..(k + 1) |-> SliceLine(j - 1, FileTagOf)]

\* a message of five characters at width 2 has gone to both sinks in three lines
C16_Witness ==
    /\ After("log")
    /\ Wraps
    /\ LogPasses
    /\ Len(Message) = 5
    /\ Width = 2
    /\ ConsoleOn
    /\ FileOn
    /\ Len(ConsoleLines) = 3
    /\ Len(FileLines) = 3

\* a normal-severity call for a non-empty newline-free message shorter than the width
FitsOneLine ==
    /\ last.op = "log"
    /\ ~IsBanner(Severity)
    /\ NewLineFree(Message)
    /\ Message # <<>>
    /\ Len(Message) < Width

\* the one line of such a call: the message with spaces up to the width
PaddedLine(tag) ==
    FormatLine(timestamp(last.pre.mIsDateTime), tag, <<":", " ">>,
               Message \o Spaces(Width - Len(Message)), CallSite)

MessageField(line) ==
    SubSeq(line, Len(timestamp(last.pre.mIsDateTime)) + 13, Len(line) - 2 - Len(CallSite))

\* C20: a log() call that has both sinks gives them the same number of lines,
\* and each console line with its ANSI sequences removed by stripAnsiColors
\* has the message field of the file line of the same position, on the banner
\* path and on the normal path.
C20_ConsoleStrippedEqualsFile ==
    (After("log") /\ LogPasses /\ ConsoleOn /\ FileOn) =>
        /\ Len(ConsoleLines) = Len(FileLines)
        /\ \A j \in 1..Len(ConsoleLines) :
              MessageField(stripAnsiColors(ConsoleLines[j])) = MessageField(FileLines[j])

\* ---- the convenience functions: a call that has returned or thrown
Done == pc[Fmt] = "idle" /\ frame[Fmt] = NoFrame /\ last.op \in Functions

\* the call log_fmt makes when it has caught a format failure
ErrorReport == <<LogFormattingError \o What, ERROR, formatLocation(last.arg[3])>>

\* C18: no convenience function lets a format failure out to its caller; a
\* call in which formatting failed has made exactly one log() call, at ERROR,
\* with the failure description and the call site of the original call.
C18_FormatFailureCaught ==
    Done =>
        /\ ~ret[Fmt].thrown
        /\ last.failed => last.calls = <<ErrorReport>>

\* the severity each function is named after
OwnSeverity(fn) ==
    CASE fn = "trace"  -> TRACE
      [] fn = "debug"  -> DEBUG
      [] fn = "info"   -> INFO
      [] fn = "warn"   -> WARN
      [] fn = "error"  -> ERROR
      [] fn = "header" -> HEADER
      [] fn = "footer" -> FOOTER
      [] fn = "notice" -> NOTICE

\* the call was compiled in, and formatted its message
Forwards ==
    /\ Done
    /\ ~last.failed
    /\ ~ret[Fmt].thrown
    /\ last.op \in {"debug", "trace"} => is_debug_build

\* "[ts][tag]" of a console line for the severity of the function called
TagPrefix ==
    <<"[">> \o timestamp(last.pre.mIsDateTime) \o <<"]", "[">>
        \o warnType(OwnSeverity(last.op), ~last.pre.mIsColor, TRUE) \o <<"]">>

LayerConsoleLines == LinesSince(last.out[1][mOlogStream], consoleOut[mOlogStream])

\* C19: a convenience function hands its message to log() once, with the
\* severity it is named after; with that bit off in the mask nothing is
\* written, and with it on (logger enabled, console on, unit not suppressed)
\* the console receives lines that carry the tag of that severity.
C19_OwnSeverity ==
    Forwards =>
        /\ Len(last.calls) = 1
        /\ last.calls[1][2] = OwnSeverity(last.op)
        /\ ~has_level(last.pre.mSetLevel, OwnSeverity(last.op)) => sinks = last.out
        /\ ( /\ has_level(last.pre.mSetLevel, OwnSeverity(last.op))
             /\ last.pre.mIsLogging
             /\ last.pre.mLogConsole
             /\ extractUnitName(formatLocation(last.arg[3])) \notin last.pre.m_suppressedUnits )
           => /\ Len(LayerConsoleLines) >= 1
              /\ \A j \in 1..Len(LayerConsoleLines) :
                    SubSeq(LayerConsoleLines[j], 1, Len(TagPrefix)) = TagPrefix

\* ---- the text utilities
\* text holds ESC '[' ... 'm': an ESC followed by '[' with an 'm' somewhere after
HasEscapeSequence(text) ==
    \E i \in 1..Len(text) :
        /\ text[i] = "ESC"
        /\ i + 1 <= Len(text)
        /\ text[i + 1] = "["
        /\ \E j \in (i + 2)..Len(text) : text[j] = "m"

\* small is what is left of big[from ..] when some characters are taken away
RECURSIVE Embeds(_, _, _)
Embeds(small, big, from) ==
    IF small = <<>> THEN TRUE
    ELSE LET at == Find(big, small[1], from)
         IN  at # 0 /\ Embeds(Tail(small), big, at + 1)

\* C21: what stripAnsiColors returns holds no ESC '[' ... 'm' sequence; a text
\* without ESC comes back unchanged; the characters that remain are in the
\* order they had in the text.
C21_StripAnsi ==
    result.op = "stripAnsiColors" =>
        /\ ~HasEscapeSequence(result.val)
        /\ (\A k \in 1..Len(arg) : arg[k] # "ESC") => result.val = arg
        /\ Embeds(result.val, arg, 1)

\* the labels as the claim lists them
ClaimedLabel(level) ==
    CASE level = TRACE  -> <<" ", "T", "R", "A", "C", "E">>
      [] level = DEBUG  -> <<" ", "D", "E", "B", "U", "G">>
      [] level = INFO   -> <<" ", " ", "I", "N", "F", "O">>
      [] level = WARN   -> <<" ", " ", "W", "A", "R", "N">>
      [] level = ERROR  -> <<" ", "E", "R", "R", "O", "R">>
      [] level = HEADER -> <<"H", "E", "A", "D", "E", "R">>
      [] level = FOOTER -> <<"F", "O", "O", "T", "E", "R">>
      [] level = NOTICE -> <<"N", "O", "T", "I", "C", "E">>

\* C22: the plain tag of each of the eight severities is the six-character,
\* right-aligned label; warnType returns it when color is off or the override
\* is on, and otherwise a text that stripAnsiColors turns into it.
C22_SeverityTag ==
    result.op = "warnType" =>
        /\ Len(ClaimedLabel(result.level)) = 6
        /\ ClaimedLabel(result.level)[6] # " "
        /\ (~result.isColor \/ result.override_color) => result.val = ClaimedLabel(result.level)
        /\ stripAnsiColors(result.val) = ClaimedLabel(result.level)

\* the colored NOTICE tag has been built
C22_Witness ==
    /\ result.op = "warnType"
    /\ result.level = NOTICE
    /\ result.isColor
    /\ ~result.override_color
    /\ Len(result.val) > 6
    /\ stripAnsiColors(result.val) = ClaimedLabel(NOTICE)

\* the number of slices of a segment, and of the segments before segment k
SliceCount(s, width) == Len(s) \div width + 1

RECURSIVE SlicesBefore(_, _, _)
SlicesBefore(strings, k, width) ==
    IF k = 1 THEN 0
    ELSE SlicesBefore(strings, k - 1, width) + SliceCount(strings[k - 1], width)

\* C29: tokenizeLineLength gives, for each segment in order, consecutive
\* slices of it: all but the last of exactly the width, the last shorter than
\* the width (empty for a segment that is a multiple of the width, the whole
\* segment for one shorter than the width).
C29_Wrap ==
    result.op = "tokenizeLineLength" =>
        LET strings == result.strings
            width   == result.width
            out     == result.val
        IN  /\ Len(out) = SlicesBefore(strings, Len(strings) + 1, width)
            /\ \A k \in 1..Len(strings) :
                 LET s    == strings[k]
                     n    == SliceCount(s, width)
                     base == SlicesBefore(strings, k, width)
                 IN  /\ \A j \in 1..(n - 1) :
                           /\ Len(out[base + j]) = width
                           /\ out[base + j] = SubSeq(s, (j - 1) * width + 1, j * width)
                     /\ Len(out[base + n]) < width
                     /\ out[base + n] = SubSeq(s, (n - 1) * width + 1, Len(s))
                     /\ Len(s) < width => out[base + 1] = s

\* a segment of twice the width has given two full slices and an empty one
C29_Witness ==
    /\ result.op = "tokenizeLineLength"
    /\ result.strings = <<<<"a", "b", "a", "b">>, <<"b">>>>
    /\ result.width = 2
    /\ result.val = <<<<"a", "b">>, <<"a", "b">>, <<>>, <<"b">>>>

\* the string between the color code and the color reset of a banner
Colored(fn, body) == Esc(BannerColor(fn)) \o body \o Esc(<<"0">>)

LeftPadding(message) == (text_space - Len(message)) \div 2

RightPadding(message) == text_space - Len(message) - LeftPadding(message)

\* C24: for a message that fits the budget of total_width - 2 * hash_count
\* = 24 characters, header, footer and notice build hash_count markers, the
\* left padding, the message, the right padding and hash_count markers again,
\* the left padding being half the free space rounded down and the right
\* padding the rest.
C24_CenteredBanner ==
    (result.op = "banner" /\ Len(result.message) <= text_space) =>
        /\ text_space = 24
        /\ result.val = Colored(result.fn,
               Run(Marker(result.fn), hash_count) \o Spaces(LeftPadding(result.message))
                  \o result.message \o Spaces(RightPadding(result.message))
                  \o Run(Marker(result.fn), hash_count))

\* the centered form as each function builds it
Centered(fn, message) ==
    Colored(fn, Run(Marker(fn), hash_count) \o Spaces(LeftPadding(message)) \o message
                   \o Spaces(RightPadding(message)) \o Closing(fn))

\* C25: header, footer and notice use the centered form for every message of
\* at most total_width - 2 * hash_count characters, and for every longer
\* message give the marker run, one space and the message, followed by the
\* color reset alone.
C25_FitOrMinimal ==
    result.op = "banner" =>
        IF Len(result.message) <= text_space
          THEN result.val = Centered(result.fn, result.message)
          ELSE result.val = Colored(result.fn,
                   Run(Marker(result.fn), hash_count) \o <<" ">> \o result.message)

\* the banner message as the console gets it: spaces added while the message
\* without its escape sequences is shorter than the width
BannerPadded ==
    LET visible_width == Len(stripAnsiColors(Message))
    IN  Message \o Spaces(IF visible_width < Width THEN Width - visible_width ELSE 0)

\* C23: a log() call at HEADER, FOOTER or NOTICE that passes the filter gives
\* each sink it has exactly one line, whatever the length of the message and
\* whether or not it holds newlines: the console line carries the whole message
\* followed by spaces so that, escape sequences not counted, it is at least as
\* wide as the width; the file line carries the plain tag and the message
\* without escape sequences, left-justified in a field of the width.
C23_BannerOneLine ==
    (After("log") /\ LogPasses /\ IsBanner(Severity)) =>
        /\ Len(stripAnsiColors(BannerPadded)) >= Width
        /\ ConsoleOn =>
              ConsoleLines = <<FormatLine(timestamp(last.pre.mIsDateTime), ConsoleTagOf,
                                          <<":", " ">>, BannerPadded, CallSite)>>
        /\ FileOn =>
              FileLines = <<FormatLine(timestamp(last.pre.mIsDateTime), FileTagOf, <<":", " ">>,
                                       LeftSetw(stripAnsiColors(Message), Width), CallSite)>>

\* a header with an escape sequence and a newline, longer than the width of 1,
\* has gone whole to the console and to the file
C23_Witness ==
    /\ After("log")
    /\ LogPasses
    /\ Severity = HEADER
    /\ Message = <<"ESC", "[", "m", "\n", "y">>
    /\ Width = 1
    /\ ConsoleOn
    /\ FileOn
    /\ Len(ConsoleLines) = 1
    /\ Len(FileLines) = 1

\* where a log() call splits, wraps, stamps and builds its lines, and where it
\* stands before each of its writes
Formatting == {"tok_test", "tok_head", "tok_tail", "log_tag", "con_width", "file_width",
               "ban_tag", "ban_test", "ban_pad", "ban_fwidth"}
BeforeWrite == {"con_lock", "file_lock"}
Writing     == {"con_flush", "file_flush"}

\* C26: a log() call has released mMutex when it leaves the snapshot block;
\* it holds mMutex again only inside one write at a time, never while it
\* formats, and not between the console write and the file write of a segment.
C26_LockOnlyAroundWrites ==
    \A t \in Threads :
        /\ pc[t] \in Formatting \cup BeforeWrite \cup {"idle"} => mMutex # {t}
        /\ pc[t] \in Writing => mMutex = {t}
        /\ (mMutex = {t} /\ loc[t].op = "log") => pc[t] \in SnapshotSection \cup Writing

\* one caller builds a console line, the lock not held, while another holds it
\* inside a write
C26_Witness ==
    \E t, u \in Threads :
        /\ pc[t] = "con_width"
        /\ pc[u] = "con_flush"
        /\ mMutex = {u}

\* no caller holds mMutex and mSharedMutex together, so none waits for one of
\* them with the other in hand
NoNestedLock == \A t \in Callers : ~(mMutex = {t} /\ t \in mSharedMutex)

\* every call that has started comes to an end, by a return or by an exception
EveryCallEnds == \A t \in Racers : (pc[t] # "idle") ~> (pc[t] = "idle")

\* C27: with every thread scheduled again and again, every log() call, every
\* mutator call and every isLogLevelEnabled call that has started returns to
\* its caller, whatever the other thread does meanwhile: the call comes to an
\* end, and the step that ends it is a return, not an exception.
C27_EveryCallReturns ==
    /\ \A t \in Racers : (pc[t] # "idle") ~> (pc[t] = "idle")
    /\ [][\A t \in Racers : (pc[t] # "idle" /\ pc'[t] = "idle") => ~ret'[t].thrown]_vars

\* the number of characters a line has around its message field
Frame(l) == Len(FormatLine(timestamp(l.is_date_time), ConsoleTag(l), Separator(l.i), <<>>,
                           l.line_info))

\* C30: a log() call works with the width and the color switch of its
\* snapshot: every slice of a message but the last has one and the same
\* length, the last is shorter, the line of every segment is padded to that
\* length, its tag is the one the snapshot's color switch gives, and no
\* change of the width by another thread makes the call fail.
C30_OneWidthPerCall ==
    \A t \in Racers :
        /\ ~ret[t].thrown
        /\ (pc[t] = "con_lock" /\ ~IsBanner(loc[t].level) /\ Len(loc[t].tokens) > 1) =>
              LET width == Len(loc[t].tokens[1])
              IN  /\ \A j \in 1..(Len(loc[t].tokens) - 1) : Len(loc[t].tokens[j]) = width
                  /\ Len(loc[t].tokens[Len(loc[t].tokens)]) < width
                  /\ Len(loc[t].line) = Frame(loc[t]) + width
        /\ pc[t] = "con_lock" =>
              ConsoleTag(loc[t]) = warnType(loc[t].level, FALSE, loc[t].is_color)

\* the fields of a line as the separator divides it: one more than it has
\* separators
Separators(line) == {i \in 1..Len(line) : line[i] = FIELD_SEPARATOR}

FieldOf(line, n) ==
    LET before == {i \in Separators(line) : Cardinality({j \in Separators(line) : j < i}) = n - 2}
        after  == {i \in Separators(line) : Cardinality({j \in Separators(line) : j < i}) = n - 1}
        from   == IF n = 1 THEN 1 ELSE (CHOOSE i \in before : TRUE) + 1
        to     == IF after = {} THEN Len(line) ELSE (CHOOSE i \in after : TRUE) - 1
    IN  SubSeq(line, from, to)

HasFourFields(line) == Cardinality(Separators(line)) >= 3

\* the lines a call has read that have four fields, in their order
RECURSIVE Accepted(_)
Accepted(lines) ==
    IF lines = <<>> THEN <<>>
    ELSE (IF HasFourFields(Head(lines)) THEN <<Head(lines)>> ELSE <<>>) \o Accepted(Tail(lines))

\* C28: parse and parseChunk make one entry of every line that the separator
\* divides into four fields or more, with the first and the third field as
\* timestamp and message, make nothing of any other line and raise no error
\* over it, and deliver the entries in the order of the lines.
C28_FourFieldsMakeARecord ==
    (result.op \in {"parse", "parseChunk"} /\ result.opened) =>
        LET lines   == Accepted(SubSeq(arg, 1, result.seen))
            entries == result.val.entries
        IN  /\ ~result.val.thrown
            /\ Len(entries) = Len(result.before) + Len(lines)
            /\ \A k \in 1..Len(result.before) : entries[k] = result.before[k]
            /\ \A k \in 1..Len(lines) :
                  /\ entries[Len(result.before) + k].timestamp = FieldOf(lines[k], 1)
                  /\ entries[Len(result.before) + k].message = FieldOf(lines[k], 3)

\* C31: a console write goes to the stream mOlogStream points to, which is
\* the stream of the last useOStream call that has returned; the pointer
\* changes only by a call and only between two whole lines, so no line has
\* its text on one stream and its newline on another. A log() call of
\* several lines that is under way during the switch goes on writing on the
\* new stream.
C31_ConsoleSinkSwitch ==
    [][/\ \A s \in Streams :
             consoleOut'[s] # consoleOut[s] => (s = mOlogStream /\ mOlogStream' = s)
       /\ mOlogStream' # mOlogStream =>
             /\ ops' = ops + 1
             /\ \A s \in Streams : Len(consoleOut[s]) % 2 = 0
             /\ \A t \in Callers : pc[t] # "con_flush"]_vars

\* a log() call of two lines has its first line on cout and, after a
\* useOStream call of another thread, the text of its second line on oss
C31_Witness ==
    \E t \in Threads :
        /\ pc[t] = "con_flush"
        /\ loc[t].i = 1
        /\ mOlogStream = "oss"
        /\ Len(consoleOut["cout"]) = 2
        /\ Len(consoleOut["oss"]) = 1

\* C32: turnDebugOn on a disabled logger and changeDebugFlags on any logger
\* also switch the console on, whatever setConsoleLogging stored before, and
\* leave mLogFile, mIsColor, mIsDateTime, mMessageWidth, the streams and the
\* suppressed units as they were.
C32_EnableTurnsConsoleOn ==
    (\/ After("changeDebugFlags")
     \/ After("turnDebugOn") /\ ~last.pre.mIsLogging) =>
        Settings = [last.pre EXCEPT !.mIsLogging = TRUE,
                                    !.mSetLevel = last.arg,
                                    !.mLogConsole = TRUE]

\* setConsoleLogging(false) on an enabled logger, then changeDebugFlags: the
\* console is on again
C32_Witness ==
    /\ After("changeDebugFlags")
    /\ last.pre.mIsLogging
    /\ ~last.pre.mLogConsole
    /\ mLogConsole
    /\ mLogFile = last.pre.mLogFile

\* ---- multi-line messages: the last call of the caller Liner
\* the positions of the newline characters of the message
NewLinesAt(text) == {k \in 1..Len(text) : text[k] = "\n"}

\* piece n (1-based) of the message: what stands between newline n - 1 and
\* newline n, the start and the end of the message counting as newlines
PieceOf(text, n) ==
    LET nth(m) == CHOOSE k \in NewLinesAt(text) :
                      Cardinality({j \in NewLinesAt(text) : j <= k}) = m
        from == IF n = 1 THEN 1 ELSE nth(n - 1) + 1
        to   == IF n = Cardinality(NewLinesAt(text)) + 1 THEN Len(text) ELSE nth(n) - 1
    IN  SubSeq(text, from, to)

\* the segments of the message: its pieces, without an empty last piece
SegmentsOf(text) ==
    LET n == Cardinality(NewLinesAt(text)) + 1
    IN  [k \in 1..(IF PieceOf(text, n) = <<>> THEN n - 1 ELSE n) |-> PieceOf(text, k)]

\* the line of segment k (1-based) of the last call
SegmentLine(k, tag) ==
    FormatLine(timestamp(last.pre.mIsDateTime), tag,
               IF k = 1 THEN <<":", " ">> ELSE <<">", " ">>,
               SegmentsOf(Message)[k] \o Spaces(Width - Len(SegmentsOf(Message)[k])),
               CallSite)

\* a normal-severity log() call of Liner has returned after passing the filter
SplitDone ==
    /\ pc[Liner] = "idle"
    /\ LogPasses
    /\ ~IsBanner(Severity)

NoSegmentWraps == \A k \in 1..Len(SegmentsOf(Message)) : Len(SegmentsOf(Message)[k]) < Width

\* C33: a normal-severity log() call that passes the filter gives each sink
\* it has one line per newline-separated segment of the message, in order,
\* the segment padded to the width, provided every segment is shorter than
\* the width; a trailing newline adds no segment, the empty message has none
\* and nothing is written for it, and an empty segment between two newlines
\* makes a line with a field of spaces.
C33_OneLinePerShortSegment ==
    (SplitDone /\ NoSegmentWraps) =>
        LET n == Len(SegmentsOf(Message))
        IN  /\ ConsoleOn => ConsoleLines = [k \in 1..n |-> SegmentLine(k, ConsoleTagOf)]
            /\ FileOn => FileLines = [k \in 1..n |-> SegmentLine(k, FileTagOf)]
            /\ Message = <<>> => sinks = last.out

\* the message "x\n\ny\n" has gone to both sinks in three lines, the second
\* with a blank field
C33_Witness ==
    /\ SplitDone
    /\ NoSegmentWraps
    /\ Message = <<"x", "\n", "\n", "y", "\n">>
    /\ ConsoleOn
    /\ FileOn
    /\ Len(ConsoleLines) = 3
    /\ Len(FileLines) = 3
    /\ MessageField(FileLines[2]) = Spaces(Width)

\* C33 as stated: one line per newline-separated segment, for every message
C33_OneLinePerSegment ==
    SplitDone =>
        /\ ConsoleOn => Len(ConsoleLines) = Len(SegmentsOf(Message))
        /\ FileOn => Len(FileLines) = Len(SegmentsOf(Message))

\* the empty message has passed the filter with both sinks on, and the call
\* has returned
C33_EmptyMessage ==
    /\ SplitDone
    /\ Message = <<>>
    /\ ConsoleOn
    /\ FileOn
    /\ sinks = last.out

\* ---- two callers of multi-line messages
\* the line carries token tok as its message field, after the separator of
\* segment i and before "| " and the call site
CarriesSegment(line, l, i) ==
    LET tok  == l.tokens[i + 1]
        rest == Len(line) - Len(l.line_info) - 2
    IN  \E n \in 0..kMessageWidth :
            LET from == rest - n - Len(tok) + 1
            IN  /\ from >= 3
                /\ SubSeq(line, from - 2, Len(line))
                      = Separator(i) \o tok \o Spaces(n) \o <<"|", " ">> \o l.line_info

\* C34: on the normal path, while the file stream is good, the console line
\* of segment i is written when segments 0..i-1 of the call are whole on
\* every sink the call has and nothing else of the call is, and the file line
\* of segment i when, besides, the console line of segment i is; each line
\* written carries its own segment. Lines of other callers may come between
\* two lines of one call.
C34_SegmentOrder ==
    [][\A t \in Liners :
          (loc[t].op = "log" /\ ~IsBanner(loc[t].level) /\ ~mFlogStream.fail) =>
              LET l    == loc[t]
                  both == l.log_to_console /\ l.log_to_file
              IN  /\ (pc[t] = "con_lock" /\ pc'[t] = "con_flush") =>
                        /\ l.log_to_console
                        /\ aux[t].wrote = (IF both THEN 4 ELSE 2) * l.i
                        /\ consoleOut'[mOlogStream] = Append(consoleOut[mOlogStream], l.line)
                        /\ CarriesSegment(l.line, l, l.i)
                  /\ (pc[t] = "file_lock" /\ pc'[t] = "file_flush") =>
                        /\ l.log_to_file
                        /\ aux[t].wrote = (IF both THEN 4 * l.i + 2 ELSE 2 * l.i)
                        /\ fileOut'[mFlogStream.path] = Append(fileOut[mFlogStream.path], l.line)
                        /\ CarriesSegment(l.line, l, l.i)]_vars

\* with both sinks on, one caller has its segment 0 on the console and in the
\* file and is writing its segment 1, the blank one, to the console, behind a
\* line that the other caller wrote in between
C34_Witness ==
    \E t, u \in Liners :
        /\ t # u
        /\ pc[t] = "con_flush"
        /\ loc[t].log_to_file
        /\ loc[t].i = 1
        /\ loc[t].tokens = << <<"x">>, <<>>, <<"y">> >>
        /\ loc[u].op = "log"
        /\ loc[u].tokens = << <<"x", "y">> >>
        /\ Len(consoleOut["cout"]) = 5
        /\ CarriesSegment(consoleOut["cout"][1], loc[t], 0)
        /\ CarriesSegment(consoleOut["cout"][3], loc[u], 0)
        /\ consoleOut["cout"][5] = loc[t].line
        /\ Len(fileOut["p1"]) >= 2
        /\ CarriesSegment(fileOut["p1"][1], loc[t], 0)

\* C35: in a debug build the logFunc of a call site is invoked at most once,
\* whatever number of threads call log_once there and however their calls
\* overlap, and a call returns without invoking it only when it has been
\* invoked before.
C35_LogOnce ==
    [][is_debug_build =>
          /\ \A s \in OnceSites : invoked'[s] <= 1
          /\ \A t \in OnceCallers :
                (oncePc[t].at = "test" /\ oncePc'[t] = OutOfOnce)
                    => invoked[oncePc[t].site] = 1]_vars


\* ------------------------------------------------------------------ C36
Alive(w) == worker[w].pc \notin {"unborn", "joined"}

\* C36: at most one parser worker thread exists at any time: when
\* parseAsync starts a worker every earlier one has been joined, and from
\* the return of stopParsing to the start of the next worker no worker
\* lives, no entry is appended to the shared vector and no progress
\* callback is invoked.
C36_OneWorker ==
    /\ [](\A v, w \in WorkerIds : Alive(v) /\ Alive(w) => v = w)
    /\ [](quiet => \A w \in WorkerIds : ~Alive(w))
    /\ [][quiet => /\ Len(log_entries') <= Len(log_entries)
                   /\ status_message' = status_message
                   /\ \A w \in WorkerIds : worker'[w].report = worker[w].report]_vars
    /\ [][\A w \in WorkerIds :
             worker[w].pc = "unborn" /\ worker'[w].pc # "unborn"
                => \A v \in WorkerIds \ {w} : ~Alive(v)]_vars

\* stopParsing has returned from joining a worker that was cancelled with
\* lines of its file unread, after another worker had been joined by Open
C36_Witness ==
    /\ quiet
    /\ ui = UiIdle
    /\ worker[1].pc = "joined"
    /\ worker[2].pc = "joined"
    /\ worker[2].report # <<>>
    /\ worker[2].report[Len(worker[2].report)].text = "Parsing cancelled"
    /\ worker[2].pos < Len(LinesOf(worker[2].file))


\* ------------------------------------------------------------------ C37
LastReport(w) == worker[w].report[Len(worker[w].report)]

\* C37: a stopParsing made after parseAsync has returned is honoured by the
\* worker, at whatever point of the worker it arrives, its first statement
\* included: from the request on the worker counts no further line, starts
\* no further batch, and it ends with a report other than "Complete".
C37_StopHonoured ==
    /\ [](\A w \in WorkerIds :
             worker[w].asked /\ worker[w].pc \in {"done", "joined"}
                => LastReport(w).text # "Complete")
    /\ [][\A w \in WorkerIds :
             worker[w].asked
                => /\ worker'[w].total_lines = worker[w].total_lines
                   /\ worker[w].pc \in {"getline", "rest"} => worker'[w].pc # "chunk"]_vars

\* a request that arrives when the worker has passed its second statement
\* is honoured: the worker ends with "Parsing cancelled" and lines unread
C37_LateStopHonoured ==
    \E w \in WorkerIds :
        /\ worker[w].asked
        /\ worker[w].pc = "done"
        /\ LastReport(w).text = "Parsing cancelled"
        /\ worker[w].total_lines < Len(LinesOf(worker[w].file))


\* ------------------------------------------------------------------ C38
\* the records parseChunk makes of the lines of a file
RecordsOf(path) == ParseLines(LinesOf(path), TrimChunk).entries

\* a file with a line at which std::stoi throws
Throws(path) == ParseLines(LinesOf(path), TrimChunk).thrown

IsPrefix(s, t) == Len(s) <= Len(t) /\ s = SubSeq(t, 1, Len(s))

\* every access to the vector is made by the holder of the entries mutex
C38_UnderMutex ==
    [][/\ log_entries' # log_entries => log_entries_mutex # {}
       /\ \A w \in WorkerIds : worker[w].pc \in {"chunk_insert", "count"}
                                  => log_entries_mutex = {w}
       /\ ui.pc \in {"clear", "copy"} => log_entries_mutex = {UI}]_vars

\* C38: once Open has started the worker of the selected file, the shared
\* vector holds records of that file only, in the order of the file: no
\* batch of an earlier parse is appended after the vector was cleared; and
\* the worker, Open and the renderers touch the vector under the mutex.
C38_OnlyNewFile ==
    /\ [](parsing_thread # 0 /\ ~Throws(worker[parsing_thread].file)
             => IsPrefix(log_entries, RecordsOf(worker[parsing_thread].file)))
    /\ C38_UnderMutex

\* an Open that found no worker to wait for: the vector fills with the
\* records of its file
C38_FirstOpen ==
    /\ parsing_thread = 1
    /\ worker[1].pc = "done"
    /\ log_entries # <<>>
    /\ log_entries = RecordsOf(worker[1].file)


\* ------------------------------------------------------------------ C39
Finished == worker[1].pc = "done"

\* C39: when the worker has parsed a file to its end with no stop request,
\* the shared vector holds exactly the records parse() returns for the
\* same file, field for field, the level among them, whatever the lines
\* are, levels padded with spaces or tabs included.
C39_SameRecords ==
    Finished => /\ ~parse(TRUE, arg).thrown
                /\ log_entries = parse(TRUE, arg).entries

\* a file of two lines, one with a level padded by a space, parsed to its
\* end in one batch: the same two records as parse() returns
C39_SpacePadded ==
    /\ Finished
    /\ Len(arg) = 2
    /\ \E k \in 1..2 : Fields(arg[k])[2] = <<" ", "W", "A", "R", "N">>
    /\ Len(log_entries) = 2
    /\ log_entries = parse(TRUE, arg).entries
    /\ LastReport(1) = Status("Complete", 2, 2)

====
